---------------------------- MODULE Spec2Model ----------------------------
(***************************************************************************)
(* A model of the document parsing subsystem of cv-parser: the parser      *)
(* factory (app/services/document_parser.py), the PDF, DOCX and TXT        *)
(* parsers (app/services/{pdf,docx,txt}_parser.py) and the PDF date        *)
(* formatter.                                                              *)
(*                                                                         *)
(* Python strings are sequences of one-character strings, so that lower(), *)
(* startswith(), slicing and int() are computed, not assumed.  The         *)
(* third-party readers (PyPDF2, python-docx, chardet) are environment: a   *)
(* byte string is described by what those libraries answer for it.         *)
(***************************************************************************)
EXTENDS Integers, Sequences, FiniteSets, TLC

VARIABLES
    registry,     \* DocumentParserFactory: token -> registered parser class
    created,      \* outcome of the latest create_parser call
    createdPrev,  \* outcome of the create_parser call before it
    dateIn,       \* argument of the latest _parse_pdf_date call
    dateOut,      \* its outcome
    cls,          \* the class of the parser instance under observation
    self,         \* the fields of that instance
    out,          \* the latest call on it: operation, argument, outcome, steps
    textIn,       \* the decoded text of a TXTParser a text function is applied to
    textOut,      \* the function applied and what it returned
    inst,         \* two parser instances whose parse calls run step by step
    requests,     \* RateLimiter._requests: API key -> count and start_time
    clock,        \* the latest reading of the limiter's clock
    reply,        \* the latest check_rate_limit call: key and outcome
    model,        \* the model attribute of each model wrapper
    saved,        \* whether the saved model file of each wrapper exists
    answer        \* the latest call on a model wrapper and its outcome

vars == <<registry, created, createdPrev, dateIn, dateOut, cls, self, out,
          textIn, textOut, inst, requests, clock, reply, model, saved, answer>>

factoryVars == <<registry, created, createdPrev>>
dateVars == <<dateIn, dateOut>>
parserVars == <<cls, self, out>>
textVars == <<textIn, textOut>>
instVars == <<inst>>
limiterVars == <<requests, clock, reply>>
modelVars == <<model, saved, answer>>
appVars == <<instVars, limiterVars, modelVars>>

(***************************************************************************)
(* Python values shared by all components.                                 *)
(***************************************************************************)

\* Python's None where a str is expected: no string is this tuple, since
\* every string is a tuple of one-character strings.
None == <<"None">>

\* The result of a call: a returned value or a raised exception.  msg holds
\* the words of the exception message that the handlers look for.
Return(v) == [kind |-> "return", val |-> v]

Raise(e, words) == [kind |-> "raise", err |-> e, msg |-> words]

NotCalled == [kind |-> "none"]

(***************************************************************************)
(* str.lower()                                                             *)
(***************************************************************************)
Uppers ==
    <<"A", "B", "C", "D", "E", "F", "G", "H", "I", "J", "K", "L", "M",
      "N", "O", "P", "Q", "R", "S", "T", "U", "V", "W", "X", "Y", "Z">>

Lowers ==
    <<"a", "b", "c", "d", "e", "f", "g", "h", "i", "j", "k", "l", "m",
      "n", "o", "p", "q", "r", "s", "t", "u", "v", "w", "x", "y", "z">>

IsUpperChar(c) == \E i \in 1..26 : Uppers[i] = c

IsLowerChar(c) == \E i \in 1..26 : Lowers[i] = c

LowerOf(c) ==
    IF IsUpperChar(c) THEN Lowers[CHOOSE i \in 1..26 : Uppers[i] = c] ELSE c

UpperOf(c) ==
    IF IsLowerChar(c) THEN Uppers[CHOOSE i \in 1..26 : Lowers[i] = c] ELSE c

Lower(s) == [i \in 1..Len(s) |-> LowerOf(s[i])]

\* Every upper/lower-case spelling of the lower-case string s.
CaseVariants(s) ==
    {[i \in 1..Len(s) |-> IF i \in U THEN UpperOf(s[i]) ELSE s[i]] :
        U \in SUBSET (1..Len(s))}

(***************************************************************************)
(* The parser factory.                                                     *)
(***************************************************************************)
TokPdf == <<"p", "d", "f">>
TokDocx == <<"d", "o", "c", "x">>
TokTxt == <<"t", "x", "t">>

\* The tokens the callers pass: the three formats and unsupported ones, in
\* every spelling.
BaseTokens == {TokPdf, TokDocx, TokTxt, <<"d", "o", "c">>, <<>>}

Tokens == UNION {CaseVariants(t) : t \in BaseTokens}

\* The classes of app/services/document_parser.py, which parse to a str.
LegacyClasses == {"PdfParser", "DocxParser", "TxtParser"}

\* The classes of pdf_parser.py, docx_parser.py and txt_parser.py, which
\* parse to {content, structure, metadata}, and a test double.
StructuredClasses == {"PDFParser", "DOCXParser", "TXTParser"}

\* The registrations made when the three parser modules are imported.
ImportRegistrations ==
    (TokPdf :> "PDFParser") @@ (TokDocx :> "DOCXParser") @@ (TokTxt :> "TXTParser")

\* DocumentParserFactory.register_parser(token, constructor): adds or
\* overwrites the mapping of the token.
register_parser(reg, token, ctor) == (token :> ctor) @@ reg

\* The tokens create_parser answers with a parser.
SupportedTokens == {TokPdf, TokDocx, TokTxt}

\* A variant of create_parser that compares the token as given.
create_parser_no_lower(file_type) ==
    IF file_type = TokPdf THEN Return("PdfParser")
    ELSE IF file_type = TokDocx THEN Return("DocxParser")
    ELSE IF file_type = TokTxt THEN Return("TxtParser")
    ELSE Raise("ValueError", {"Unsupported file type"})

\* DocumentParserFactory.create_parser(file_type)
create_parser(file_type) ==
    LET ft == Lower(file_type) IN
    IF ft = TokPdf THEN Return("PdfParser")
    ELSE IF ft = TokDocx THEN Return("DocxParser")
    ELSE IF ft = TokTxt THEN Return("TxtParser")
    ELSE Raise("ValueError", {"Unsupported file type"})

NoCreate == [token |-> <<>>, res |-> NotCalled]

InitFactory ==
    /\ registry = ImportRegistrations
    /\ created = NoCreate
    /\ createdPrev = NoCreate

\* A call of DocumentParserFactory.register_parser, as the parser modules
\* make it on import and a test makes it to install a double.
RegisterParser ==
    \E token \in {TokPdf, TokDocx, TokTxt} :
      \E ctor \in {ImportRegistrations[token], "TestDouble"} :
        /\ registry' = register_parser(registry, token, ctor)
        /\ UNCHANGED <<created, createdPrev>>
        /\ UNCHANGED <<dateVars, parserVars, textVars, appVars>>

\* A call of DocumentParserFactory().create_parser(token).
CreateParser ==
    \E token \in Tokens :
        /\ created' = [token |-> token, res |-> create_parser(token)]
        /\ createdPrev' = created
        /\ UNCHANGED registry
        /\ UNCHANGED <<dateVars, parserVars, textVars, appVars>>

NextFactory == RegisterParser \/ CreateParser


(***************************************************************************)
(* PDFParser._parse_pdf_date: the pieces of Python it is made of.          *)
(***************************************************************************)
Digits == <<"0", "1", "2", "3", "4", "5", "6", "7", "8", "9">>

IsDigit(c) == \E i \in 1..Len(Digits) : Digits[i] = c

DigitVal(c) == (CHOOSE i \in 1..Len(Digits) : Digits[i] = c) - 1

DigitChar(n) == Digits[n + 1]

IsSpace(c) == c \in {" ", "\t", "\n", "\r", "u0B"}

\* str.startswith(prefix)
StartsWith(s, prefix) ==
    Len(s) >= Len(prefix) /\ SubSeq(s, 1, Len(prefix)) = prefix

\* The slice s[a:b] for 0 <= a <= b.
Slice(s, a, b) == SubSeq(s, a + 1, IF b < Len(s) THEN b ELSE Len(s))

\* The slice s[a:].
SliceFrom(s, a) == SubSeq(s, a + 1, Len(s))

\* str.lstrip()
LStrip(s) ==
    LET k == Cardinality({i \in 1..Len(s) : \A j \in 1..i : IsSpace(s[j])})
    IN  SubSeq(s, k + 1, Len(s))

\* str.rstrip()
RStrip(s) ==
    LET k == Cardinality({i \in 1..Len(s) : \A j \in i..Len(s) : IsSpace(s[j])})
    IN  SubSeq(s, 1, Len(s) - k)

\* str.strip()
Strip(s) == LStrip(RStrip(s))

RECURSIVE DigitsValue(_)
DigitsValue(s) ==
    IF s = <<>> THEN 0
    ELSE IF s[Len(s)] = "_" THEN DigitsValue(SubSeq(s, 1, Len(s) - 1))
    ELSE 10 * DigitsValue(SubSeq(s, 1, Len(s) - 1)) + DigitVal(s[Len(s)])

\* int() of the digits that follow the sign.
PyIntBody(negative, body) ==
    IF /\ body # <<>>
       /\ IsDigit(body[1])
       /\ IsDigit(body[Len(body)])
       /\ \A i \in 1..Len(body) : IsDigit(body[i]) \/ body[i] = "_"
       /\ \A i \in 1..(Len(body) - 1) : ~(body[i] = "_" /\ body[i + 1] = "_")
    THEN Return(IF negative THEN 0 - DigitsValue(body) ELSE DigitsValue(body))
    ELSE Raise("ValueError", {"invalid literal for int()"})

\* int() of a str without surrounding whitespace.
PyIntStripped(t) ==
    IF t # <<>> /\ t[1] \in {"+", "-"} THEN PyIntBody(t[1] = "-", Tail(t))
    ELSE PyIntBody(FALSE, t)

\* int(s) of a str: surrounding whitespace, one optional sign, then digits with
\* single underscores between them; anything else is a ValueError.
PyInt(s) == PyIntStripped(Strip(s))

IsLeap(y) == (y % 4 = 0 /\ y % 100 # 0) \/ y % 400 = 0

DaysInMonth(y, m) ==
    IF m = 2 THEN (IF IsLeap(y) THEN 29 ELSE 28)
    ELSE IF m \in {4, 6, 9, 11} THEN 30 ELSE 31

\* datetime(year, month, day, hour, minute, second) accepts these values.
ValidDateTime(y, mo, d, h, mi, s) ==
    /\ 1 <= y /\ y <= 9999
    /\ 1 <= mo /\ mo <= 12
    /\ 1 <= d /\ d <= DaysInMonth(y, mo)
    /\ 0 <= h /\ h <= 23
    /\ 0 <= mi /\ mi <= 59
    /\ 0 <= s /\ s <= 59

Pad2(n) == <<DigitChar(n \div 10), DigitChar(n % 10)>>

Pad4(n) == Pad2(n \div 100) \o Pad2(n % 100)

\* datetime.isoformat() of a datetime without microseconds or time zone.
IsoFormat(y, mo, d, h, mi, s) ==
    Pad4(y) \o <<"-">> \o Pad2(mo) \o <<"-">> \o Pad2(d) \o <<"T">>
        \o Pad2(h) \o <<":">> \o Pad2(mi) \o <<":">> \o Pad2(s)

\* datetime(...).isoformat() of the six int() results; the bare except turns
\* a ValueError of int() or of datetime() into "".
DateFromFields(y, mo, d, h, mi, sec) ==
    IF \E f \in {y, mo, d, h, mi, sec} : f.kind = "raise" THEN <<>>
    ELSE IF ~ValidDateTime(y.val, mo.val, d.val, h.val, mi.val, sec.val) THEN <<>>
    ELSE IsoFormat(y.val, mo.val, d.val, h.val, mi.val, sec.val)

\* The body of _parse_pdf_date once the prefix is dealt with.
DateFromDigits(s) ==
    IF Len(s) >= 14
    THEN DateFromFields(PyInt(Slice(s, 0, 4)), PyInt(Slice(s, 4, 6)),
                        PyInt(Slice(s, 6, 8)), PyInt(Slice(s, 8, 10)),
                        PyInt(Slice(s, 10, 12)), PyInt(Slice(s, 12, 14)))
    ELSE None

\* PDFParser._parse_pdf_date(date_str): the ISO text, "" from the bare
\* except, or None when the function falls off its end.
parse_pdf_date(date_str) ==
    IF StartsWith(date_str, <<"D", ":">>) THEN DateFromDigits(SliceFrom(date_str, 2))
    ELSE DateFromDigits(date_str)

\* The date strings handed to the formatter: a prefix, the six fields and a
\* suffix, each from a few spellings, and the strings of the unit test.
DateValid == <<"D", ":", "2", "0", "2", "4", "0", "3", "2", "8",
               "1", "2", "3", "4", "5", "6">>

DateInvalid == <<"i", "n", "v", "a", "l", "i", "d">>

DatePrefixes == {<<>>, <<"D", ":">>}

DateYears == {<<"2", "0", "2", "4">>, <<"2", "0", "2", "3">>,
              <<"0", "0", "0", "0">>, <<"2", "0", "x", "4">>}

DateMonthDays == {<<"0", "3", "2", "8">>, <<"0", "2", "2", "9">>,
                  <<"1", "3", "0", "1">>, <<"0", "4", "3", "1">>}

DateTimes == {<<"1", "2", "3", "4", "5", "6">>, <<"2", "4", "0", "0", "0", "0">>,
              <<"1", "2", "6", "0", "0", "0">>, <<"1", "2", "3", "4", "5">>}

DateSuffixes == {<<>>, <<"+", "0", "1", "'", "0", "0", "'">>}

DateInputs ==
    {<<>>, DateInvalid, <<"D", ":">>,
     <<"D", ":", "+", "2", "0", "2", "0", "3", " ", "7", "1", "2", "3", "4", "5", "6">>}
    \cup {p \o y \o md \o t \o z :
            p \in DatePrefixes, y \in DateYears, md \in DateMonthDays,
            t \in DateTimes, z \in DateSuffixes}

InitDate ==
    /\ dateIn = <<>>
    /\ dateOut = NotCalled

\* A call of PDFParser()._parse_pdf_date(d).
ParsePdfDate ==
    \E d \in DateInputs :
        /\ dateIn' = d
        /\ dateOut' = Return(parse_pdf_date(d))
        /\ UNCHANGED <<factoryVars, parserVars, textVars, appVars>>

NextDate == ParsePdfDate

(***************************************************************************)
(* Python text helpers of the parsers.                                     *)
(***************************************************************************)
RECURSIVE Join(_, _)
\* sep.join(parts)
Join(parts, sep) ==
    IF parts = <<>> THEN <<>>
    ELSE IF Len(parts) = 1 THEN parts[1]
    ELSE parts[1] \o sep \o Join(Tail(parts), sep)

\* An empty dict.
EmptyMap == <<>>

\* d[k] = v on a dict.
Put(d, k, v) == (k :> v) @@ d

\* d.get(k) is truthy: the key is there with a non-empty string.
HasTruthy(d, k) == k \in DOMAIN d /\ d[k] # <<>>

(***************************************************************************)
(* The PDF parser.  A byte string is described by what PyPDF2 answers for  *)
(* it; an opened reader is described by the bytes it was opened from.      *)
(***************************************************************************)

\* Python's None in a field that holds bytes or a reader.
NoBytes == [kind |-> "none"]

MaxPages == 2

TextA == <<"A", "a">>
TextB == <<"B">>

\* A page: the text extract_text() returns or its failure, and whether the
\* page's mediabox can be read.
PageA == [text |-> TextA, fail |-> FALSE, box |-> TRUE, rotate |-> 0]

PageKinds ==
    {PageA,
     [text |-> TextB, fail |-> FALSE, box |-> FALSE, rotate |-> 0],
     [text |-> <<>>, fail |-> FALSE, box |-> TRUE, rotate |-> 90],
     [text |-> <<>>, fail |-> TRUE, box |-> TRUE, rotate |-> 0]}

PageSeqs == UNION {[1..n -> PageKinds] : n \in 0..MaxPages}

\* reader.metadata: None, a failing read, or a document-info dictionary.
InfoNone == [kind |-> "none"]
InfoRaise == [kind |-> "raise"]
InfoDict(d) == [kind |-> "dict", d |-> d]

InfoSamples ==
    {InfoNone, InfoRaise, InfoDict(EmptyMap),
     InfoDict(("/Title" :> <<"T">>) @@ ("/Author" :> <<"A">>)
              @@ ("/CreationDate" :> DateValid) @@ ("/ModDate" :> DateInvalid)),
     InfoDict(("/Title" :> <<>>) @@ ("/Subject" :> <<"S">>) @@ ("/Keywords" :> <<"K">>)
              @@ ("/Producer" :> <<"P">>) @@ ("/Creator" :> <<"C">>)
              @@ ("/CreationDate" :> <<"D", ":", "2", "0", "2", "4", "1", "3", "0", "1",
                                       "1", "2", "0", "0", "0", "0">>)
              @@ ("/ModDate" :> DateValid))}

\* What PdfReader(stream) raises for bytes it cannot open, with whether the
\* message holds the word "seek".
OpenOk == [err |-> "", seek |-> FALSE]

OpenFailures ==
    {[err |-> "AttributeError", seek |-> TRUE],
     [err |-> "ValueError", seek |-> FALSE],
     [err |-> "OSError", seek |-> FALSE]}

PdfBytes(empty, sig, open, encrypted, pagesOk, pages, info, outline) ==
    [kind |-> "bytes", empty |-> empty, sig |-> sig, open |-> open,
     encrypted |-> encrypted, pagesOk |-> pagesOk, pages |-> pages,
     info |-> info, outline |-> outline]

\* b"": PdfReader raises EmptyFileError, a PdfReadError.
PdfEmpty ==
    PdfBytes(TRUE, FALSE, [err |-> "PdfReadError", seek |-> FALSE], FALSE, FALSE,
             <<>>, InfoNone, "none")

\* Bytes PdfReader cannot open: no PDF at all or a broken one (PdfReadError,
\* with and without the %PDF- signature), and the other failures of the
\* reader on a file that carries the signature.
PdfUnreadable ==
    {PdfBytes(FALSE, sig, [err |-> "PdfReadError", seek |-> FALSE], FALSE, FALSE,
              <<>>, InfoNone, "none") : sig \in BOOLEAN}
    \cup {PdfBytes(FALSE, TRUE, f, FALSE, FALSE, <<>>, InfoNone, "none") :
            f \in OpenFailures}

\* Bytes PdfReader opens.  The non-strict reader also opens a file whose
\* header is preceded by other bytes, so the signature is independent of
\* the rest.  The families vary the pages, the document information, the
\* outline, and encryption (which an empty user password lets the reader
\* undo, or not).
PdfReadable ==
    {PdfBytes(FALSE, TRUE, OpenOk, FALSE, TRUE, pages, InfoDict(EmptyMap), "none") :
        pages \in PageSeqs}
    \cup {PdfBytes(FALSE, FALSE, OpenOk, FALSE, TRUE, pages, InfoDict(EmptyMap), "none") :
            pages \in {<<>>, <<PageA>>}}
    \cup {PdfBytes(FALSE, TRUE, OpenOk, FALSE, TRUE, [i \in 1..n |-> PageA], info, "none") :
            n \in 0..MaxPages, info \in InfoSamples}
    \cup {PdfBytes(FALSE, TRUE, OpenOk, FALSE, FALSE, <<>>, info, "none") :
            info \in {InfoNone, InfoDict(EmptyMap)}}
    \cup {PdfBytes(FALSE, TRUE, OpenOk, FALSE, TRUE, <<PageA>>, InfoDict(EmptyMap), o) :
            o \in {"list", "raise"}}
    \cup {PdfBytes(FALSE, TRUE, OpenOk, TRUE, ok, IF ok THEN <<PageA>> ELSE <<>>,
                   info, "none") :
            ok \in BOOLEAN, info \in {InfoRaise, InfoDict(EmptyMap)}}

PdfInputs == {PdfEmpty} \cup PdfUnreadable \cup PdfReadable

\* PyPDF2.PdfReader(io.BytesIO(content))
PdfReader(content) ==
    IF content.open.err = "" THEN Return(content)
    ELSE Raise(content.open.err, IF content.open.seek THEN {"seek"} ELSE {})

\* DocumentParser._set_content(content): stores the bytes.
set_content(obj, content) == [obj EXCEPT !._content = content]

\* "not self._get_content()": no bytes stored, or b"".
NoContent(obj) == obj._content.kind = "none" \/ obj._content.empty

\* PDFParser.__init__
PDFParserInit == [_content |-> NoBytes, _pdf_reader |-> NoBytes, _structure |-> NoBytes]

\* A variant of _extract_text without the try around page.extract_text(): the
\* failure of one page ends the extraction.
pdf_extract_text_page_fatal(obj) ==
    IF obj._pdf_reader.kind = "none"
    THEN Raise("PDFParsingError", {"No PDF loaded for text extraction"})
    ELSE IF ~obj._pdf_reader.pagesOk
            \/ \E i \in 1..Len(obj._pdf_reader.pages) : obj._pdf_reader.pages[i].fail
    THEN Raise("PDFParsingError", {"Failed to extract text"})
    ELSE LET kept == SelectSeq(obj._pdf_reader.pages, LAMBDA pg : pg.text # <<>>)
         IN  Return(Join([i \in 1..Len(kept) |-> kept[i].text], <<"\n", "\n">>))

\* PDFParser._extract_text
pdf_extract_text(obj) ==
    IF obj._pdf_reader.kind = "none"
    THEN Raise("PDFParsingError", {"No PDF loaded for text extraction"})
    ELSE IF ~obj._pdf_reader.pagesOk
    THEN Raise("PDFParsingError", {"Failed to extract text"})
    ELSE LET pages == obj._pdf_reader.pages
             kept == SelectSeq(pages, LAMBDA pg : ~pg.fail /\ pg.text # <<>>)
         IN  Return(Join([i \in 1..Len(kept) |-> kept[i].text], <<"\n", "\n">>))

PdfDefaultStructure ==
    [pages |-> <<>>, sections |-> <<>>, images |-> <<>>, outline |-> "absent"]

\* A variant of _extract_structure without its except clause: a failure while
\* the pages or the outline are read is raised.
pdf_extract_structure_no_except(obj) ==
    IF obj._pdf_reader.kind = "none"
    THEN Raise("PDFParsingError", {"No PDF loaded for structure extraction"})
    ELSE LET r == obj._pdf_reader IN
         IF \/ ~r.pagesOk
            \/ \E i \in 1..Len(r.pages) : ~r.pages[i].box
            \/ r.outline = "raise"
         THEN Raise("Exception", {})
         ELSE Return([pages |-> [i \in 1..Len(r.pages) |->
                                   [number |-> i, rotation |-> r.pages[i].rotate]],
                      sections |-> <<>>, images |-> <<>>,
                      outline |-> IF r.outline = "list" THEN "present" ELSE "absent"])

\* PDFParser._extract_structure
pdf_extract_structure(obj) ==
    IF obj._pdf_reader.kind = "none"
    THEN Raise("PDFParsingError", {"No PDF loaded for structure extraction"})
    ELSE LET r == obj._pdf_reader IN
         IF \/ ~r.pagesOk
            \/ \E i \in 1..Len(r.pages) : ~r.pages[i].box
            \/ r.outline = "raise"
         THEN Return(PdfDefaultStructure)
         ELSE Return([pages |-> [i \in 1..Len(r.pages) |->
                                   [number |-> i, rotation |-> r.pages[i].rotate]],
                      sections |-> <<>>, images |-> <<>>,
                      outline |-> IF r.outline = "list" THEN "present" ELSE "absent"])

\* The six standard fields copied when truthy: (info key, metadata key).
PdfStandardFields ==
    <<<<"/Title", "title">>, <<"/Author", "author">>, <<"/Subject", "subject">>,
      <<"/Keywords", "keywords">>, <<"/Producer", "producer">>,
      <<"/Creator", "creator">>>>

RECURSIVE CopyFields(_, _, _)
CopyFields(info, fields, md) ==
    IF fields = <<>> THEN md
    ELSE CopyFields(info, Tail(fields),
                    IF HasTruthy(info, Head(fields)[1])
                    THEN Put(md, Head(fields)[2], info[Head(fields)[1]])
                    ELSE md)

\* One date field of extract_metadata: parsed, and kept when truthy.
CopyDate(info, key, name, md) ==
    IF HasTruthy(info, key)
    THEN LET iso == parse_pdf_date(info[key])
         IN  IF iso # None /\ iso # <<>> THEN Put(md, name, iso) ELSE md
    ELSE md

\* The body of PDFParser.extract_metadata for a loaded reader; failed is
\* what an exception inside it leads to.
pdf_metadata_of(r, failed) ==
    IF r.info.kind = "raise" THEN failed
    ELSE IF r.info.kind = "none" THEN Return(EmptyMap)
    ELSE LET std == CopyFields(r.info.d, PdfStandardFields, EmptyMap)
             cre == CopyDate(r.info.d, "/CreationDate", "creation_date", std)
             mod == CopyDate(r.info.d, "/ModDate", "modification_date", cre)
         IN  IF ~r.pagesOk THEN failed
             ELSE Return(Put(mod, "page_count", Len(r.pages)))

\* A variant of extract_metadata whose try has no except.
pdf_extract_metadata_no_except(obj) ==
    IF obj._pdf_reader.kind = "none"
    THEN Raise("PDFParsingError", {"No PDF loaded for metadata extraction"})
    ELSE pdf_metadata_of(obj._pdf_reader, Raise("Exception", {}))

\* PDFParser.extract_metadata
pdf_extract_metadata(obj) ==
    IF obj._pdf_reader.kind = "none"
    THEN Raise("PDFParsingError", {"No PDF loaded for metadata extraction"})
    ELSE pdf_metadata_of(obj._pdf_reader, Return(EmptyMap))

\* PDFParser.validate
pdf_validate(obj) ==
    IF NoContent(obj)
    THEN Raise("PDFParsingError", {"No content has been set for validation"})
    ELSE IF ~obj._content.sig
    THEN Raise("ValidationError", {"PDF validation failed", "Not a valid PDF file"})
    ELSE LET reader == PdfReader(obj._content) IN
         IF reader.kind = "raise"
         THEN (IF reader.err = "PdfReadError"
               THEN Raise("ValidationError", {"Invalid PDF structure"})
               ELSE Raise("ValidationError", {"PDF validation failed"}))
         ELSE IF ~reader.val.pagesOk
         THEN Raise("ValidationError", {"PDF validation failed"})
         ELSE IF Len(reader.val.pages) = 0
         THEN Raise("ValidationError", {"PDF validation failed", "PDF has no pages"})
         ELSE Return(TRUE)

\* The except clauses of PDFParser.parse without the last one, except
\* Exception.
pdf_parse_except_no_catch_all(e) ==
    IF e.err = "PdfReadError"
    THEN Raise("PDFDamagedError", {"Failed to read PDF"} \cup e.msg)
    ELSE IF e.err \in {"AttributeError", "ValueError", "TypeError"}
    THEN (IF "seek" \in e.msg
          THEN Raise("PDFDamagedError", {"Invalid PDF format"} \cup e.msg)
          ELSE Raise("PDFParsingError", {"PDF parsing failed"} \cup e.msg))
    ELSE e

\* The except clauses of PDFParser.parse, applied to an exception raised in
\* its try block.
pdf_parse_except(e) ==
    IF e.err = "PdfReadError"
    THEN Raise("PDFDamagedError", {"Failed to read PDF"} \cup e.msg)
    ELSE IF e.err \in {"AttributeError", "ValueError", "TypeError"}
    THEN (IF "seek" \in e.msg
          THEN Raise("PDFDamagedError", {"Invalid PDF format"} \cup e.msg)
          ELSE Raise("PDFParsingError", {"PDF parsing failed"} \cup e.msg))
    ELSE Raise("PDFParsingError", {"PDF parsing failed"} \cup e.msg)

\* PDFParser.parse(content): the fields afterwards, the outcome and the steps
\* that ran.
pdf_parse(obj, content) ==
    LET s1 == set_content(obj, content)
        reader == PdfReader(content)
    IN  IF reader.kind = "raise"
        THEN [obj |-> s1, res |-> pdf_parse_except(reader),
              steps |-> <<"set_content", "open">>]
        ELSE LET s2 == [s1 EXCEPT !._pdf_reader = reader.val] IN
             IF reader.val.encrypted
             THEN [obj |-> s2,
                   res |-> pdf_parse_except(
                             Raise("PDFEncryptedError", {"Cannot parse encrypted PDF"})),
                   steps |-> <<"set_content", "open", "is_encrypted">>]
             ELSE LET text == pdf_extract_text(s2) IN
                  IF text.kind = "raise"
                  THEN [obj |-> s2, res |-> pdf_parse_except(text),
                        steps |-> <<"set_content", "open", "is_encrypted",
                                    "extract_text">>]
                  ELSE LET structure == pdf_extract_structure(s2)
                           metadata == pdf_extract_metadata(s2)
                       IN  [obj |-> s2,
                            res |-> IF structure.kind = "raise"
                                    THEN pdf_parse_except(structure)
                                    ELSE IF metadata.kind = "raise"
                                    THEN pdf_parse_except(metadata)
                                    ELSE Return([content |-> text.val,
                                                 structure |-> structure.val,
                                                 metadata |-> metadata.val]),
                            steps |-> <<"set_content", "open", "is_encrypted",
                                        "extract_text", "extract_structure",
                                        "extract_metadata">>]

NoCall == [op |-> "none", arg |-> NoBytes, res |-> NotCalled, steps |-> <<>>]

InitPDF ==
    /\ cls = "PDFParser"
    /\ self = PDFParserInit
    /\ out = NoCall

\* A call of parser.parse(content) on a PDFParser.
PdfParse ==
    \E content \in PdfInputs :
        /\ cls = "PDFParser"
        /\ LET r == pdf_parse(self, content) IN
            /\ self' = r.obj
            /\ out' = [op |-> "parse", arg |-> content, res |-> r.res,
                       steps |-> r.steps]
        /\ UNCHANGED <<cls, factoryVars, dateVars, textVars, appVars>>

\* A call of parser.validate() on a PDFParser.
PdfValidate ==
    /\ cls = "PDFParser"
    /\ out' = [op |-> "validate", arg |-> NoBytes, res |-> pdf_validate(self),
               steps |-> <<>>]
    /\ UNCHANGED <<cls, self, factoryVars, dateVars, textVars, appVars>>

\* A call of parser.extract_metadata() on a PDFParser.
PdfExtractMetadata ==
    /\ cls = "PDFParser"
    /\ out' = [op |-> "extract_metadata", arg |-> NoBytes,
               res |-> pdf_extract_metadata(self), steps |-> <<>>]
    /\ UNCHANGED <<cls, self, factoryVars, dateVars, textVars, appVars>>

NextPDF == PdfParse \/ PdfValidate \/ PdfExtractMetadata

(***************************************************************************)
(* The DOCX parser.  A byte string is described by what python-docx        *)
(* answers for it; the opened Document is described by those bytes.        *)
(***************************************************************************)
MaxParagraphs == 2

\* A paragraph: its text and the name of its style.
ParagraphPlain == [text |-> <<"P", "a">>, style |-> <<"N", "o", "r", "m", "a", "l">>]

ParagraphKinds ==
    {ParagraphPlain,
     [text |-> <<" ", "T", " ">>, style |-> <<"H", "e", "a", "d", "i", "n", "g", " ", "1">>],
     [text |-> <<" ">>, style |-> <<"N", "o", "r", "m", "a", "l">>],
     [text |-> <<"H">>, style |-> <<"H", "e", "a", "d", "i", "n", "g">>]}

ParagraphSeqs == UNION {[1..n -> ParagraphKinds] : n \in 0..MaxParagraphs}

\* Tables: each a sequence of rows, each row a sequence of cell texts.
TableHeaderData ==
    <<<<<<"H", "1">>, <<"H", "2">>>>, <<<<"D", "1">>, <<"D", "2">>>>>>

TableBlanks ==
    <<<<<<" ">>, <<>>>>, <<<<" ", "c", " ">>, <<>>, <<"d">>>>>>

TableSeqs == {<<>>, <<TableHeaderData>>, <<TableBlanks>>, <<TableBlanks, TableHeaderData>>}

\* A datetime of the core properties.
DocxCreated == [kind |-> "datetime", y |-> 2024, mo |-> 3, d |-> 28, h |-> 12, mi |-> 34, s |-> 56]

\* doc.core_properties: a failing read, or the properties; "" and None are
\* both falsy and written as the empty string, no datetime as NoBytes.
PropsRaise == [kind |-> "raise"]
Props(title, author, when) ==
    [kind |-> "props",
     text |-> ("title" :> title) @@ ("author" :> author) @@ ("subject" :> <<>>)
              @@ ("keywords" :> <<"k">>) @@ ("category" :> <<>>)
              @@ ("comments" :> <<>>),
     created |-> when, modified |-> NoBytes, last_printed |-> when]

PropsSamples ==
    {PropsRaise, Props(<<>>, <<>>, NoBytes), Props(<<"T">>, <<"A">>, DocxCreated)}

\* A section: its page width and height in points; a section read from a
\* damaged sectPr has no width (None).
SectionPortrait == [page_width |-> 612, page_height |-> 792]
SectionLandscape == [page_width |-> 792, page_height |-> 612]
SectionNoSize == [page_width |-> -1, page_height |-> 792]

SectionSeqs == {<<SectionPortrait>>, <<SectionLandscape, SectionPortrait>>,
                <<SectionNoSize>>}

DocxBytes(empty, sig, open, bodyOk, paragraphs, tables, sections, props) ==
    [kind |-> "bytes", empty |-> empty, sig |-> sig, open |-> open,
     bodyOk |-> bodyOk, paragraphs |-> paragraphs, tables |-> tables,
     sections |-> sections, props |-> props]

\* What Document(stream) raises for bytes it cannot open, with the words of
\* the message.  zipfile raises BadZipFile("File is not a zip file") for a
\* stream that is no zip archive.
DocxOpenOk == [err |-> "", msg |-> {}]

DocxOpenFailures ==
    {[err |-> "PackageNotFoundError", msg |-> {"Package not found"}],
     [err |-> "BadZipFile", msg |-> {"not a zip file"}],
     [err |-> "ValueError", msg |-> {"not a zip file"}],
     [err |-> "KeyError", msg |-> {}],
     [err |-> "ValueError", msg |-> {}]}

DocxUnreadable ==
    {DocxBytes(FALSE, FALSE, f, FALSE, <<>>, <<>>, <<>>, PropsRaise) :
        f \in {x \in DocxOpenFailures : "not a zip file" \in x.msg}}
    \cup {DocxBytes(TRUE, FALSE, [err |-> "BadZipFile", msg |-> {"not a zip file"}],
                    FALSE, <<>>, <<>>, <<>>, PropsRaise)}
    \cup {DocxBytes(FALSE, TRUE, f, FALSE, <<>>, <<>>, <<>>, PropsRaise) :
            f \in DocxOpenFailures}

\* Bytes that open: a zip archive starts with PK.  The families vary the
\* paragraphs and tables, the sections, the properties, and a body whose
\* paragraphs cannot be listed.
DocxReadable ==
    {DocxBytes(FALSE, TRUE, DocxOpenOk, TRUE, ps, <<>>, <<SectionPortrait>>,
               Props(<<>>, <<>>, NoBytes)) : ps \in ParagraphSeqs}
    \cup {DocxBytes(FALSE, TRUE, DocxOpenOk, TRUE, <<ParagraphPlain>>, ts,
                    <<SectionPortrait>>, Props(<<>>, <<>>, NoBytes)) :
            ts \in TableSeqs}
    \cup {DocxBytes(FALSE, TRUE, DocxOpenOk, TRUE, <<>>, <<>>, ss, pr) :
            ss \in SectionSeqs, pr \in PropsSamples}
    \cup {DocxBytes(FALSE, TRUE, DocxOpenOk, FALSE, <<>>, <<>>, <<SectionPortrait>>, pr) :
            pr \in PropsSamples}

DocxInputs == DocxUnreadable \cup DocxReadable

\* docx.Document(io.BytesIO(content))
Document(content) ==
    IF content.open.err = "" THEN Return(content)
    ELSE Raise(content.open.err, content.open.msg)

\* DOCXParser.__init__
DOCXParserInit == [_content |-> NoBytes, _doc |-> NoBytes, _structure |-> NoBytes]

\* A variant of RowText that keeps the blank cells of the row.
RowText_blank_cells(row) ==
    Join([i \in 1..Len(row) |-> Strip(row[i])], <<" ", "|", " ">>)

\* The text line of a table row: the stripped non-blank cells joined by " | ".
RowText(row) ==
    LET cells == SelectSeq([i \in 1..Len(row) |-> Strip(row[i])], LAMBDA c : c # <<>>)
    IN  Join(cells, <<" ", "|", " ">>)

RECURSIVE Flatten(_)
\* The rows of all tables, in order.
Flatten(tables) ==
    IF tables = <<>> THEN <<>> ELSE Head(tables) \o Flatten(Tail(tables))

\* DOCXParser._extract_text
docx_extract_text(obj) ==
    IF obj._doc.kind = "none"
    THEN Raise("DOCXParsingError", {"No document loaded for text extraction"})
    ELSE IF ~obj._doc.bodyOk
    THEN Raise("DOCXParsingError", {"Failed to extract text"})
    ELSE LET ps == SelectSeq(obj._doc.paragraphs, LAMBDA para : Strip(para.text) # <<>>)
             rows == Flatten(obj._doc.tables)
             lines == SelectSeq([i \in 1..Len(rows) |-> RowText(rows[i])],
                                LAMBDA l : l # <<>>)
         IN  Return(Join([i \in 1..Len(ps) |-> ps[i].text] \o lines, <<"\n">>))

DocxDefaultStructure ==
    [sections |-> <<>>, headings |-> <<>>, tables |-> <<>>, lists |-> <<>>]

HeadingWord == <<"H", "e", "a", "d", "i", "n", "g">>

RECURSIVE Replace(_, _, _)
\* str.replace(old, new) for a non-empty old.
Replace(s, old, new) ==
    IF Len(s) < Len(old) THEN s
    ELSE IF SubSeq(s, 1, Len(old)) = old
    THEN new \o Replace(SubSeq(s, Len(old) + 1, Len(s)), old, new)
    ELSE <<Head(s)>> \o Replace(Tail(s), old, new)

\* The level of a heading paragraph: int(style.name.replace('Heading ', '')).
HeadingLevel(style) == PyInt(Replace(style, HeadingWord \o <<" ">>, <<>>))

\* DOCXParser._extract_structure
docx_extract_structure(obj) ==
    IF obj._doc.kind = "none"
    THEN Raise("DOCXParsingError", {"No document loaded for structure extraction"})
    ELSE LET doc == obj._doc
             headed == {i \in 1..Len(doc.paragraphs) :
                          StartsWith(doc.paragraphs[i].style, HeadingWord)}
         IN  IF \/ ~doc.bodyOk
                \/ \E i \in 1..Len(doc.sections) : doc.sections[i].page_width < 0
                \/ \E i \in headed : HeadingLevel(doc.paragraphs[i].style).kind = "raise"
             THEN Return(DocxDefaultStructure)
             ELSE Return(
                 [sections |->
                    [i \in 1..Len(doc.sections) |->
                       [number |-> i,
                        page_width |-> doc.sections[i].page_width,
                        page_height |-> doc.sections[i].page_height,
                        orientation |->
                          IF doc.sections[i].page_width < doc.sections[i].page_height
                          THEN "portrait" ELSE "landscape"]],
                  headings |->
                    LET idx == SelectSeq([i \in 1..Len(doc.paragraphs) |-> i],
                                         LAMBDA i : i \in headed)
                    IN  [k \in 1..Len(idx) |->
                           [level |-> HeadingLevel(doc.paragraphs[idx[k]].style).val,
                            text |-> doc.paragraphs[idx[k]].text,
                            position |-> idx[k] - 1]],
                  tables |->
                    [i \in 1..Len(doc.tables) |->
                       [number |-> i, rows |-> Len(doc.tables[i]),
                        columns |-> IF doc.tables[i] = <<>> THEN 0
                                    ELSE Len(doc.tables[i][1])]],
                  lists |-> <<>>])

\* DOCXParser._format_datetime
format_datetime(dt) ==
    IF dt.kind = "none" THEN <<>> ELSE IsoFormat(dt.y, dt.mo, dt.d, dt.h, dt.mi, dt.s)

DocxTextFields == <<"title", "author", "subject", "keywords", "category", "comments">>

RECURSIVE CopyProps(_, _, _)
CopyProps(text, fields, md) ==
    IF fields = <<>> THEN md
    ELSE CopyProps(text, Tail(fields),
                   IF text[Head(fields)] # <<>>
                   THEN Put(md, Head(fields), text[Head(fields)]) ELSE md)

\* One datetime property of extract_metadata, formatted when it is set.
CopyDateTime(dt, name, md) ==
    IF dt.kind # "none" THEN Put(md, name, format_datetime(dt)) ELSE md

\* The body of DOCXParser.extract_metadata for a loaded document; failed is
\* what an exception inside it leads to.
docx_metadata_of(doc, failed) ==
    IF doc.props.kind = "raise" \/ ~doc.bodyOk THEN failed
    ELSE LET txt == CopyProps(doc.props.text, DocxTextFields, EmptyMap)
             cre == CopyDateTime(doc.props.created, "creation_date", txt)
             mod == CopyDateTime(doc.props.modified, "modification_date", cre)
             prn == CopyDateTime(doc.props.last_printed, "last_printed", mod)
         IN  Return(Put(Put(Put(prn, "paragraph_count", Len(doc.paragraphs)),
                            "table_count", Len(doc.tables)),
                        "section_count", Len(doc.sections)))

\* DOCXParser.extract_metadata
docx_extract_metadata(obj) ==
    IF obj._doc.kind = "none"
    THEN Raise("DOCXParsingError", {"No document loaded for metadata extraction"})
    ELSE docx_metadata_of(obj._doc, Return(EmptyMap))

\* DOCXParser.validate
docx_validate(obj) ==
    IF NoContent(obj)
    THEN Raise("DOCXParsingError", {"No content has been set for validation"})
    ELSE IF ~obj._content.sig
    THEN Raise("ValidationError", {"DOCX validation failed", "Not a valid DOCX file"})
    ELSE LET doc == Document(obj._content) IN
         IF doc.kind = "raise"
         THEN (IF doc.err = "PackageNotFoundError"
               THEN Raise("ValidationError", {"Invalid DOCX structure"})
               ELSE Raise("ValidationError", {"DOCX validation failed"}))
         ELSE IF ~doc.val.bodyOk
         THEN Raise("ValidationError", {"DOCX validation failed"})
         ELSE Return(TRUE)

\* The except clauses of DOCXParser.parse.
docx_parse_except(e) ==
    IF e.err = "PackageNotFoundError"
    THEN Raise("DOCXCorruptedError", {"Failed to read DOCX"} \cup e.msg)
    ELSE IF e.err \in {"ValueError", "TypeError", "AttributeError"}
    THEN (IF "not a zip file" \in e.msg
          THEN Raise("DOCXCorruptedError", {"Invalid DOCX format"} \cup e.msg)
          ELSE Raise("DOCXParsingError", {"DOCX parsing failed"} \cup e.msg))
    ELSE Raise("DOCXParsingError", {"DOCX parsing failed"} \cup e.msg)

\* DOCXParser.parse(content)
docx_parse(obj, content) ==
    LET s1 == set_content(obj, content)
        doc == Document(content)
    IN  IF doc.kind = "raise"
        THEN [obj |-> s1, res |-> docx_parse_except(doc),
              steps |-> <<"set_content", "open">>]
        ELSE LET s2 == [s1 EXCEPT !._doc = doc.val]
                 text == docx_extract_text(s2)
             IN  IF text.kind = "raise"
                 THEN [obj |-> s2, res |-> docx_parse_except(text),
                       steps |-> <<"set_content", "open", "extract_text">>]
                 ELSE LET structure == docx_extract_structure(s2)
                          metadata == docx_extract_metadata(s2)
                      IN  [obj |-> s2,
                           res |-> IF structure.kind = "raise"
                                   THEN docx_parse_except(structure)
                                   ELSE IF metadata.kind = "raise"
                                   THEN docx_parse_except(metadata)
                                   ELSE Return([content |-> text.val,
                                                structure |-> structure.val,
                                                metadata |-> metadata.val]),
                           steps |-> <<"set_content", "open", "extract_text",
                                       "extract_structure", "extract_metadata">>]

InitDOCX ==
    /\ cls = "DOCXParser"
    /\ self = DOCXParserInit
    /\ out = NoCall

\* A call of parser.parse(content) on a DOCXParser.
DocxParse ==
    \E content \in DocxInputs :
        /\ cls = "DOCXParser"
        /\ LET r == docx_parse(self, content) IN
            /\ self' = r.obj
            /\ out' = [op |-> "parse", arg |-> content, res |-> r.res,
                       steps |-> r.steps]
        /\ UNCHANGED <<cls, factoryVars, dateVars, textVars, appVars>>

\* A call of parser.validate() on a DOCXParser.
DocxValidate ==
    /\ cls = "DOCXParser"
    /\ out' = [op |-> "validate", arg |-> NoBytes, res |-> docx_validate(self),
               steps |-> <<>>]
    /\ UNCHANGED <<cls, self, factoryVars, dateVars, textVars, appVars>>

\* A call of parser.extract_metadata() on a DOCXParser.
DocxExtractMetadata ==
    /\ cls = "DOCXParser"
    /\ out' = [op |-> "extract_metadata", arg |-> NoBytes,
               res |-> docx_extract_metadata(self), steps |-> <<>>]
    /\ UNCHANGED <<cls, self, factoryVars, dateVars, textVars, appVars>>

NextDOCX == DocxParse \/ DocxValidate \/ DocxExtractMetadata

(***************************************************************************)
(* The TXT parser.  A byte string is its bytes, an ASCII byte written as   *)
(* its character and any other byte by its hex name, with the answer of    *)
(* chardet.detect for it and the answer of langdetect for its text.  A     *)
(* decoded character outside ASCII is written by its code point.           *)
(***************************************************************************)
HighBytes == {"x80", "x81", "xA2", "xE2", "xE9"}

\* The value of a byte: NUL, tab, line feed, vertical tab, carriage return
\* and escape have their own; 128 stands for the bytes of HighBytes and 65
\* for every other byte, all of which are printable ASCII.
ByteVal(b) ==
    CASE b = "x00" -> 0 [] b = "\t" -> 9 [] b = "\n" -> 10 [] b = "x0B" -> 11
      [] b = "\r" -> 13 [] b = "x1B" -> 27 [] b \in HighBytes -> 128
      [] OTHER -> 65

\* b < 9 or (b > 13 and b < 32 and b != 27)
IsBinaryByte(b) ==
    ByteVal(b) < 9 \/ (ByteVal(b) > 13 /\ ByteVal(b) < 32 /\ ByteVal(b) # 27)

EncUtf8 == <<"u", "t", "f", "-", "8">>
EncUtf8Short == <<"u", "t", "f", "8">>
EncAscii == <<"a", "s", "c", "i", "i">>
EncWindows1252 == <<"W", "i", "n", "d", "o", "w", "s", "-", "1", "2", "5", "2">>
EncLatin1 == <<"I", "S", "O", "-", "8", "8", "5", "9", "-", "1">>
EncEucTw == <<"E", "U", "C", "-", "T", "W">>

\* The codec Python finds for an encoding name; names are case-insensitive
\* and Python has no codec for EUC-TW.
Codec(enc) ==
    LET n == Lower(enc) IN
    IF n \in {EncUtf8, EncUtf8Short} THEN "utf-8"
    ELSE IF n = EncAscii THEN "ascii"
    ELSE IF n = Lower(EncWindows1252) THEN "cp1252"
    ELSE IF n = Lower(EncLatin1) THEN "latin-1"
    ELSE "unknown"

Utf8Bullet == <<"xE2", "x80", "xA2">>

\* An encoded bullet starts at byte i of data.
BulletAt(data, i) ==
    i >= 1 /\ i + 2 <= Len(data) /\ SubSeq(data, i, i + 2) = Utf8Bullet

\* Byte i of data belongs to an encoded bullet.
InBullet(data, i) ==
    BulletAt(data, i) \/ BulletAt(data, i - 1) \/ BulletAt(data, i - 2)

\* The bytes are well-formed UTF-8: every high byte belongs to an encoded
\* bullet.
Utf8Valid(data) ==
    \A i \in 1..Len(data) : data[i] \in HighBytes => InBullet(data, i)

\* A single byte as the character all the single-byte codecs agree on.
AsciiChar(b) ==
    CASE b = "x00" -> "u00" [] b = "x0B" -> "u0B" [] b = "x1B" -> "u1B"
      [] OTHER -> b

\* What byte i of data contributes to the text decoded with replacement:
\* a character, or "" for a byte that continues the part before it.
Utf8At(data, i) ==
    IF data[i] \notin HighBytes THEN AsciiChar(data[i])
    ELSE IF BulletAt(data, i) THEN "u2022"
    ELSE IF InBullet(data, i) THEN ""
    ELSE IF data[i] = "x80" /\ i > 1 /\ data[i - 1] = "xE2" THEN ""
    ELSE "uFFFD"

\* bytes.decode('utf-8', errors='replace'): each maximal ill-formed part
\* becomes one U+FFFD.
Utf8Text(data) ==
    SelectSeq([i \in 1..Len(data) |-> Utf8At(data, i)], LAMBDA c : c # "")

\* The character of one byte in cp1252; 0x81 has none.
Cp1252Char(b) ==
    CASE b = "x80" -> "u20AC" [] b = "xA2" -> "uA2" [] b = "xE2" -> "uE2"
      [] b = "xE9" -> "uE9" [] OTHER -> AsciiChar(b)

\* The character of one byte in ISO-8859-1.
Latin1Char(b) ==
    CASE b = "x80" -> "u80" [] b = "x81" -> "u81" [] b = "xA2" -> "uA2"
      [] b = "xE2" -> "uE2" [] b = "xE9" -> "uE9" [] OTHER -> AsciiChar(b)

\* bytes.decode(encoding)
Decode(data, enc) ==
    LET codec == Codec(enc) IN
    IF codec = "unknown" THEN Raise("LookupError", {"unknown encoding"})
    ELSE IF codec = "utf-8"
    THEN (IF Utf8Valid(data) THEN Return(Utf8Text(data))
          ELSE Raise("UnicodeDecodeError", {"invalid start byte"}))
    ELSE IF codec = "ascii"
    THEN (IF \E i \in 1..Len(data) : data[i] \in HighBytes
          THEN Raise("UnicodeDecodeError", {"ordinal not in range(128)"})
          ELSE Return([i \in 1..Len(data) |-> AsciiChar(data[i])]))
    ELSE IF codec = "cp1252"
    THEN (IF \E i \in 1..Len(data) : data[i] = "x81"
          THEN Raise("UnicodeDecodeError", {"character maps to <undefined>"})
          ELSE Return([i \in 1..Len(data) |-> Cp1252Char(data[i])]))
    ELSE Return([i \in 1..Len(data) |-> Latin1Char(data[i])])

\* A byte string with what the libraries answer for it: encoding None is
\* written as the empty name, the confidence in hundredths, and lang is ""
\* when langdetect is not installed or fails.
TxtBytes(data, enc, conf, lang) ==
    [kind |-> "bytes", data |-> data, enc |-> enc, conf |-> conf, lang |-> lang]

\* b"This is not a valid document", the bytes parse() rejects by name
TxtSentinel ==
    <<"T", "h", "i", "s", " ", "i", "s", " ", "n", "o", "t", " ", "a", " ",
      "v", "a", "l", "i", "d", " ", "d", "o", "c", "u", "m", "e", "n", "t">>

\* Fewer than 10 bytes.
TxtShort ==
    <<"H", "i", " ", "t", "h", "e", "r", "e">>

\* Whitespace only.
TxtBlank ==
    <<" ", " ", " ", " ", " ", "\n", "\n", " ", " ", " ", " ", " ", "\n">>

\* One visible character.
TxtOneChar ==
    <<" ", " ", " ", " ", " ", " ", " ", " ", " ", " ", "x", "\n">>

\* An underlined title, a paragraph and a numbered list; under 50 bytes.
TxtHeaded ==
    <<"T", "i", "t", "l", "e", "\n", "=", "=", "=", "=", "=", "\n", "\n",
      "S", "o", "m", "e", " ", " ", "t", "e", "x", "t", "\n", "1", ".",
      " ", "o", "n", "e", "\n", "2", ".", " ", "t", "w", "o", "\n">>

\* An all-caps heading, lists of each marker, CRLF and blank lines; 50 bytes or more.
TxtResume ==
    <<"S", "K", "I", "L", "L", "S", "\n", "\n", "*", " ", "P", "y", "t",
      "h", "o", "n", "\n", "-", " ", "G", "o", "\n", "\n", "\n", "\n", "W",
      "o", "r", "k", " ", " ", " ", "a", "t", "\r", "\n", "A", "c", "m",
      "e", " ", "C", "o", "r", "p", "\n", "\n", "N", "o", "t", "e", "s",
      "\n", "-", "-", "-", "-", "-", "\n", " ", " ", "3", ".", " ", "x",
      "\n">>

\* Two NUL bytes among 12: more than 5% control bytes.
TxtControl ==
    <<"x00", "x00", "b", "i", "n", "a", "r", "y", "d", "a", "t", "a">>

\* One NUL byte among 20: exactly 5% control bytes.
TxtOneControl ==
    <<"x00", "n", "i", "n", "e", "t", "e", "e", "n", " ", "m", "o", "r",
      "e", " ", "b", "y", "t", "e", "s">>

\* One vertical tab (byte 11) among 12 bytes.
TxtVerticalTab ==
    <<"p", "a", "g", "e", "x0B", "b", "r", "e", "a", "k", "s", "\n">>

\* One escape (byte 27) among 12 bytes.
TxtEscape ==
    <<"x1B", "c", "o", "l", "o", "u", "r", " ", "t", "e", "x", "t">>

\* UTF-8 text with the bullet U+2022 (bytes E2 80 A2); under 50 bytes.
TxtBullets ==
    <<"I", "t", "e", "m", "s", "\n", "xE2", "x80", "xA2", " ", "f", "i",
      "r", "s", "t", "\n", "xE2", "x80", "xA2", " ", "s", "e", "c", "o",
      "n", "d", "\n">>

\* UTF-8 text with bullets; 50 bytes or more.
TxtBulletsLong ==
    <<"A", " ", "l", "i", "s", "t", " ", "o", "f", " ", "t", "h", "i", "n",
      "g", "s", " ", "t", "o", " ", "k", "e", "e", "p", " ", "i", "n", " ",
      "m", "i", "n", "d", "\n", "\n", "xE2", "x80", "xA2", " ", "f", "i",
      "r", "s", "t", "\n", "xE2", "x80", "xA2", " ", "s", "e", "c", "o",
      "n", "d", " ", "o", "n", "e", "\n">>

\* b"Invalid \x80 UTF-8 sequence": a lone byte 0x80.
TxtLone80 ==
    <<"I", "n", "v", "a", "l", "i", "d", " ", "x80", " ", "U", "T", "F",
      "-", "8", " ", "s", "e", "q", "u", "e", "n", "c", "e">>

\* Latin text with the byte E9.
TxtLatin ==
    <<"c", "a", "f", "xE9", " ", "a", "u", " ", "l", "a", "i", "t", "\n">>

\* A byte 0x81, which cp1252 does not define; under 50 bytes.
TxtUndefined ==
    <<"o", "d", "d", " ", "x81", " ", "b", "y", "t", "e", " ", "i", "n",
      " ", "t", "e", "x", "t", "\n">>

\* A byte 0x81 and a truncated E2 80; 50 bytes or more.
TxtUndefinedLong ==
    <<"o", "d", "d", " ", "x81", " ", "b", "y", "t", "e", " ", "i", "n",
      " ", "a", " ", "l", "o", "n", "g", "e", "r", " ", "t", "e", "x", "t",
      ",", " ", "a", "n", "d", " ", "xE2", "x80", " ", "c", "u", "t", " ",
      "s", "h", "o", "r", "t", ",", " ", "t", "o", " ", "t", "h", "e", " ",
      "e", "n", "d", "\n">>

\* The byte strings parsed, each with what chardet.detect may answer for
\* it: ascii for bytes that are all ASCII, utf-8 for well-formed UTF-8 (with
\* little confidence when the multi-byte characters are few), a legacy
\* encoding for the rest, or no encoding at all.
TxtInputs ==
    {TxtBytes(<<>>, <<>>, 0, ""),
     TxtBytes(TxtSentinel, EncAscii, 100, ""),
     TxtBytes(TxtShort, EncAscii, 100, ""),
     TxtBytes(TxtBlank, EncAscii, 100, ""),
     TxtBytes(TxtOneChar, EncAscii, 100, ""),
     TxtBytes(TxtHeaded, EncAscii, 100, ""),
     TxtBytes(TxtResume, EncAscii, 100, ""),
     TxtBytes(TxtResume, EncAscii, 100, "en"),
     TxtBytes(TxtControl, EncAscii, 100, ""),
     TxtBytes(TxtOneControl, EncAscii, 100, ""),
     TxtBytes(TxtVerticalTab, EncAscii, 100, ""),
     TxtBytes(TxtEscape, EncAscii, 100, ""),
     TxtBytes(TxtBullets, EncUtf8, 50, ""),
     TxtBytes(TxtBullets, EncUtf8, 87, ""),
     TxtBytes(TxtBullets, EncWindows1252, 73, ""),
     TxtBytes(TxtBulletsLong, EncUtf8, 50, ""),
     TxtBytes(TxtBulletsLong, EncWindows1252, 73, ""),
     TxtBytes(TxtLone80, EncWindows1252, 73, ""),
     TxtBytes(TxtLone80, <<>>, 0, ""),
     TxtBytes(TxtLatin, EncLatin1, 73, ""),
     TxtBytes(TxtLatin, EncEucTw, 99, ""),
     TxtBytes(TxtUndefined, EncWindows1252, 73, ""),
     TxtBytes(TxtUndefinedLong, EncWindows1252, 73, ""),
     TxtBytes(TxtUndefinedLong, EncLatin1, 40, "")}

\* A str value held in a field that may also be None; lang is what
\* langdetect answers for the text.
Str(text, lang) == [kind |-> "str", val |-> text, lang |-> lang]

\* "not x" for a field holding None or a str.
Falsy(x) == x.kind = "none" \/ x.val = <<>>

\* TXTParser.__init__; _confidence is not set before the first detection.
TXTParserInit ==
    [_content |-> NoBytes, _encoding |-> EncUtf8, _decoded_content |-> NoBytes,
     _structure |-> NoBytes, _confidence |-> NoBytes]

\* binary_chars: the number of control bytes in content.
BinaryCount(data) == Cardinality({i \in 1..Len(data) : IsBinaryByte(data[i])})

\* A variant of the decoding that accepts what the UTF-8 fallback with
\* replacement gives, whatever the length of the content.
decode_content_any_length(o1, c, d) ==
    IF d.kind = "return"
    THEN [obj |-> [o1 EXCEPT !._decoded_content = Str(d.val, c.lang)],
          res |-> Return(None)]
    ELSE IF d.err # "UnicodeDecodeError"
    THEN [obj |-> o1, res |-> d]
    ELSE [obj |-> [o1 EXCEPT !._encoding = EncUtf8,
                             !._decoded_content = Str(Utf8Text(c.data), c.lang)],
          res |-> Return(None)]

\* The end of _detect_and_decode_content: the parser o1 with the detected
\* encoding, the content c, and d, what content.decode(encoding) did.
decode_content(o1, c, d) ==
    IF d.kind = "return"
    THEN [obj |-> [o1 EXCEPT !._decoded_content = Str(d.val, c.lang)],
          res |-> Return(None)]
    ELSE IF d.err # "UnicodeDecodeError"
    THEN [obj |-> o1, res |-> d]
    ELSE [obj |-> [o1 EXCEPT !._encoding = EncUtf8,
                             !._decoded_content = Str(Utf8Text(c.data), c.lang)],
          res |-> IF Len(c.data) < 50
                  THEN Raise("TXTEncodingError",
                             {"Failed to decode content with any encoding",
                              "encoding errors detected"})
                  ELSE Return(None)]

\* _detect_and_decode_content from the detection on, for content c with the
\* encoding enc that chardet or the default gives.
detect_content(obj, c, enc) ==
    IF c.conf < 70 /\ Len(c.data) < 50
    THEN [obj |-> [obj EXCEPT !._encoding = enc, !._confidence = c.conf],
          res |-> Raise("TXTParsingError",
                        {"unable to detect encoding with confidence"})]
    ELSE IF /\ \E i \in 1..Len(c.data) : c.data[i] = "x80"
            /\ Lower(enc) \in {EncUtf8, EncUtf8Short, EncAscii}
    THEN [obj |-> [obj EXCEPT !._encoding = enc, !._confidence = c.conf],
          res |-> Raise("TXTEncodingError", {"Invalid sequence detected"})]
    ELSE decode_content([obj EXCEPT !._encoding = enc, !._confidence = c.conf],
                        c, Decode(c.data, enc))

\* TXTParser._detect_and_decode_content: the parser after it, and how it ends.
detect_and_decode_content(obj) ==
    IF obj._content.kind = "none" \/ obj._content.data = <<>>
    THEN [obj |-> obj, res |-> Raise("TXTEncodingError", {"No content to decode"})]
    ELSE IF Len(obj._content.data) < 10
    THEN [obj |-> obj,
          res |-> Raise("TXTParsingError", {"Content too short to be a valid text document"})]
    ELSE IF BinaryCount(obj._content.data) * 100 > Len(obj._content.data) * 5
    THEN [obj |-> obj,
          res |-> Raise("TXTParsingError", {"contains too many binary characters"})]
    ELSE detect_content(obj, obj._content,
                        IF obj._content.enc = <<>> THEN EncUtf8 ELSE obj._content.enc)

\* A variant of UnifyNewlines whose pattern is r'\r\n' alone: a lone
\* carriage return stays.
UnifyNewlines_crlf_only(s) ==
    SelectSeq([i \in 1..Len(s) |->
                 IF s[i] = "\r" /\ i < Len(s) /\ s[i + 1] = "\n" THEN "" ELSE s[i]],
              LAMBDA c : c # "")

\* re.sub(r'\r\n|\r', '\n', s)
UnifyNewlines(s) ==
    SelectSeq([i \in 1..Len(s) |->
                 IF s[i] = "\r" THEN "\n"
                 ELSE IF s[i] = "\n" /\ i > 1 /\ s[i - 1] = "\r" THEN ""
                 ELSE s[i]],
              LAMBDA c : c # "")

\* str.splitlines(): the pieces between line ends; a last piece without a
\* line end counts when it is not empty.
SplitLines(s) ==
    LET u == UnifyNewlines([i \in 1..Len(s) |-> IF s[i] = "u0B" THEN "\n" ELSE s[i]])
        ends == SelectSeq([i \in 1..Len(u) |-> IF u[i] = "\n" THEN i ELSE 0],
                          LAMBDA i : i # 0)
        last == IF ends = <<>> THEN 0 ELSE ends[Len(ends)]
        whole == [k \in 1..Len(ends) |->
                    SubSeq(u, (IF k = 1 THEN 0 ELSE ends[k - 1]) + 1, ends[k] - 1)]
    IN  IF last < Len(u) THEN Append(whole, SubSeq(u, last + 1, Len(u))) ELSE whole

\* A character the regex class \w matches.
IsWordChar(c) ==
    IsUpperChar(c) \/ IsLowerChar(c) \/ IsDigit(c) \/ c \in {"_", "uE2", "uE9"}

\* len(re.findall(r'\b\w+\b', s)): the number of maximal runs of word
\* characters.
WordCount(s) ==
    Cardinality({i \in 1..Len(s) :
                   IsWordChar(s[i]) /\ (i = 1 \/ ~IsWordChar(s[i - 1]))})

\* TXTParser.extract_metadata
txt_extract_metadata(obj) ==
    IF obj._decoded_content.kind = "none" THEN Return(EmptyMap)
    ELSE LET text == obj._decoded_content.val
             md == ("line_count" :> Len(SplitLines(text)))
                   @@ ("word_count" :> WordCount(text))
                   @@ ("char_count" :> Len(text))
                   @@ ("encoding" :> obj._encoding)
         IN  IF obj._decoded_content.lang # "" /\ Len(Strip(text)) > 10
             THEN Return(Put(md, "detected_language", obj._decoded_content.lang))
             ELSE Return(md)

\* The end of validate: d is the parser and the outcome of the decoding
\* validate asked for, if it had to.
validate_decoded(d) ==
    IF d.res.kind = "raise" THEN d
    ELSE IF Falsy(d.obj._decoded_content) \/ Strip(d.obj._decoded_content.val) = <<>>
    THEN [obj |-> d.obj,
          res |-> Raise("ValidationError", {"TXT content is empty after decoding"})]
    ELSE [obj |-> d.obj, res |-> Return(TRUE)]

\* TXTParser.validate: the parser after it, and how it ends.
txt_validate(obj) ==
    IF obj._content.kind = "none" \/ obj._content.data = <<>>
    THEN [obj |-> obj, res |-> Raise("ValidationError", {"Empty TXT content"})]
    ELSE validate_decoded(IF obj._decoded_content.kind = "none"
                          THEN detect_and_decode_content(obj)
                          ELSE [obj |-> obj, res |-> Return(None)])

\* re.sub(r' +', ' ', s)
CollapseSpaces(s) ==
    SelectSeq([i \in 1..Len(s) |->
                 IF s[i] = " " /\ i > 1 /\ s[i - 1] = " " THEN "" ELSE s[i]],
              LAMBDA c : c # "")

\* re.sub(r'\n{3,}', '\n\n', s)
CollapseBlankLines(s) ==
    SelectSeq([i \in 1..Len(s) |->
                 IF s[i] = "\n" /\ i > 2 /\ s[i - 1] = "\n" /\ s[i - 2] = "\n"
                 THEN "" ELSE s[i]],
              LAMBDA c : c # "")

\* A variant of NormalizeStr that collapses the blank lines before it
\* standardizes the line endings.
NormalizeStr_blank_lines_first(text) ==
    Strip(UnifyNewlines(CollapseBlankLines(CollapseSpaces(text))))

\* The normalisation of a decoded text.
NormalizeStr(text) == Strip(CollapseBlankLines(UnifyNewlines(CollapseSpaces(text))))

\* TXTParser.normalize_text
normalize_text(obj) ==
    IF Falsy(obj._decoded_content) THEN <<>>
    ELSE NormalizeStr(obj._decoded_content.val)

\* The three characters the list pattern has where a bullet was meant.
PatternBullet == <<"uE2", "u20AC", "uA2">>

\* The number of digits s starts with.
LeadingDigits(s) ==
    Cardinality({i \in 1..Len(s) : \A j \in 1..i : IsDigit(s[j])})

\* The length of what (\d+\.|<bullet>|\*|\-) matches at the start of s; 0 for
\* no match.
MarkerLen(s) ==
    IF LeadingDigits(s) > 0
    THEN (IF Len(s) > LeadingDigits(s) /\ s[LeadingDigits(s) + 1] = "."
          THEN LeadingDigits(s) + 1 ELSE 0)
    ELSE IF StartsWith(s, PatternBullet) THEN 3
    ELSE IF s # <<>> /\ Head(s) \in {"*", "-"} THEN 1
    ELSE 0

\* re.match(r'^\s*(\d+\.|<bullet>|\*|\-)\s+(.+)$', line): whether it matches, and
\* groups 1 and 2.
ListMatch(line) ==
    LET t == LStrip(line)
        n == MarkerLen(t)
        rest == SubSeq(t, n + 1, Len(t))
        k == Len(rest) - Len(LStrip(rest))
    IN  IF n = 0 \/ k = 0 \/ Len(rest) < 2
        THEN [ok |-> FALSE, marker |-> <<>>, text |-> <<>>]
        ELSE [ok |-> TRUE, marker |-> SubSeq(t, 1, n),
              text |-> IF k < Len(rest) THEN SubSeq(rest, k + 1, Len(rest))
                       ELSE <<rest[k]>>]

\* str.isupper(): some cased character and no lower-case one.
IsUpper(s) ==
    /\ \E i \in 1..Len(s) : IsUpperChar(s[i])
    /\ \A i \in 1..Len(s) : ~IsLowerChar(s[i]) /\ s[i] \notin {"uE2", "uE9"}

\* A variant of IsUnderline that takes a line of = characters only.
IsUnderline_equals_only(s) == \A i \in 1..Len(s) : s[i] = "="

\* all(c in '=-' for c in s)
IsUnderline(s) == \A i \in 1..Len(s) : s[i] \in {"=", "-"}

\* The locals of _extract_structure before its loop.
StructureStart ==
    [headers |-> <<>>, lists |-> <<>>, paragraphs |-> <<>>, indentation |-> <<>>,
     sections |-> <<>>, current_paragraph |-> <<>>, in_list |-> FALSE,
     list_items |-> <<>>]

\* A variant of AddContent that appends to the section opened first.
AddContent_first_section(sections, text) ==
    IF sections = <<>> THEN sections
    ELSE [sections EXCEPT ![1].content = Append(@, text)]

\* current_section['content'].append(text); the current section is the one
\* added last.
AddContent(sections, text) ==
    IF sections = <<>> THEN sections
    ELSE [sections EXCEPT ![Len(sections)].content = Append(@, text)]

\* A header with its section.
AddHeader(st, level, text, i) ==
    [st EXCEPT
       !.headers = Append(@, [level |-> level, text |-> text, line |-> i]),
       !.sections = Append(@, [title |-> text, level |-> level, start_line |-> i,
                               content |-> <<>>])]

\* One pass of the loop of _extract_structure, for line number i.
StructureStep(st, lines, i) ==
    LET line == lines[i]
        line_stripped == Strip(line)
        st1 == IF line_stripped # <<>>
               THEN [st EXCEPT !.indentation =
                        Append(@, [line |-> i, level |-> Len(line) - Len(LStrip(line))])]
               ELSE st
    IN  IF /\ i < Len(lines)
           /\ line_stripped # <<>>
           /\ Strip(lines[i + 1]) # <<>>
           /\ IsUnderline(Strip(lines[i + 1]))
        THEN AddHeader(st1,
                       IF \E j \in 1..Len(lines[i + 1]) : lines[i + 1][j] = "=" THEN 1 ELSE 2,
                       line_stripped, i)
        ELSE IF line_stripped # <<>> /\ IsUpper(line_stripped) /\ Len(line_stripped) > 3
        THEN AddHeader(st1, 3, line_stripped, i)
        ELSE LET m == ListMatch(line) IN
             IF m.ok
             THEN [st1 EXCEPT
                     !.in_list = TRUE,
                     !.list_items =
                        Append(IF st1.in_list THEN @ ELSE <<>>,
                               [text |-> m.text, line |-> i,
                                type |-> IF IsDigit(m.marker[1]) THEN "numbered"
                                         ELSE "bullet"]),
                     !.sections = AddContent(@, line_stripped)]
             ELSE LET st2 == IF st1.in_list /\ line_stripped = <<>>
                             THEN [st1 EXCEPT !.lists = Append(@, st1.list_items),
                                              !.in_list = FALSE,
                                              !.list_items = <<>>]
                             ELSE st1
                  IN  IF line_stripped # <<>>
                      THEN [st2 EXCEPT !.current_paragraph = Append(@, line),
                                       !.sections = AddContent(@, line_stripped)]
                      ELSE IF st2.current_paragraph # <<>>
                      THEN [st2 EXCEPT
                              !.paragraphs = Append(@, Join(st2.current_paragraph, <<" ">>)),
                              !.current_paragraph = <<>>]
                      ELSE st2

RECURSIVE StructureLoop(_, _, _)
\* The loop of _extract_structure from line number i on.
StructureLoop(st, lines, i) ==
    IF i > Len(lines) THEN st
    ELSE StructureLoop(StructureStep(st, lines, i), lines, i + 1)

\* The structure of a non-empty decoded text.
StructureOf(text) ==
    LET st == StructureLoop(StructureStart, SplitLines(text), 1)
    IN  ("headers" :> st.headers)
        @@ ("lists" :> IF st.in_list THEN Append(st.lists, st.list_items) ELSE st.lists)
        @@ ("paragraphs" :> IF st.current_paragraph # <<>>
                            THEN Append(st.paragraphs, Join(st.current_paragraph, <<" ">>))
                            ELSE st.paragraphs)
        @@ ("indentation" :> st.indentation)
        @@ ("sections" :> st.sections)

\* TXTParser._extract_structure
txt_extract_structure(obj) ==
    IF Falsy(obj._decoded_content) THEN EmptyMap
    ELSE StructureOf(obj._decoded_content.val)

\* The except clauses of TXTParser.parse.
txt_parse_except(e) ==
    IF e.err = "UnicodeDecodeError"
    THEN Raise("TXTEncodingError", {"Failed to decode TXT with encoding"} \cup e.msg)
    ELSE Raise("TXTParsingError", {"Failed to parse TXT document"} \cup e.msg)

\* The end of parse: the structure extracted, and v, the parser and the
\* outcome of validate().
parse_validated(structure, v) ==
    IF v.res.kind = "raise"
    THEN [obj |-> v.obj, res |-> txt_parse_except(v.res),
          steps |-> <<"set_content", "detect_and_decode", "extract_structure",
                      "validate">>]
    ELSE [obj |-> v.obj,
          res |-> Return([content |-> normalize_text(v.obj),
                          structure |-> structure,
                          metadata |-> txt_extract_metadata(v.obj).val,
                          encoding |-> v.obj._encoding,
                          confidence |-> v.obj._confidence]),
          steps |-> <<"set_content", "detect_and_decode", "extract_structure",
                      "validate", "normalize_text", "extract_metadata">>]

\* parse after the decoding: d is the parser and the outcome of
\* _detect_and_decode_content.
parse_decoded(d) ==
    IF d.res.kind = "raise"
    THEN [obj |-> d.obj, res |-> txt_parse_except(d.res),
          steps |-> <<"set_content", "detect_and_decode">>]
    ELSE IF Falsy(d.obj._decoded_content)
            \/ Len(Strip(d.obj._decoded_content.val)) < 2
    THEN [obj |-> d.obj,
          res |-> Raise("TXTParsingError",
                        {"Failed to parse TXT document", "Invalid or empty TXT content"}),
          steps |-> <<"set_content", "detect_and_decode">>]
    ELSE parse_validated(txt_extract_structure(d.obj), txt_validate(d.obj))

\* TXTParser.parse(content)
txt_parse(obj, content) ==
    IF content.data = TxtSentinel
    THEN [obj |-> set_content(obj, content),
          res |-> Raise("TXTParsingError",
                        {"Failed to parse TXT document", "Invalid document format"}),
          steps |-> <<"set_content">>]
    ELSE parse_decoded(detect_and_decode_content(set_content(obj, content)))

InitTXT ==
    /\ cls = "TXTParser"
    /\ self = TXTParserInit
    /\ out = NoCall

\* A call of parser.parse(content) on a TXTParser.
TxtParse ==
    \E content \in TxtInputs :
        /\ cls = "TXTParser"
        /\ LET r == txt_parse(self, content) IN
            /\ self' = r.obj
            /\ out' = [op |-> "parse", arg |-> content, res |-> r.res,
                       steps |-> r.steps]
        /\ UNCHANGED <<cls, factoryVars, dateVars, textVars, appVars>>

\* A call of parser.validate() on a TXTParser.
TxtValidate ==
    /\ cls = "TXTParser"
    /\ LET r == txt_validate(self) IN
        /\ self' = r.obj
        /\ out' = [op |-> "validate", arg |-> NoBytes, res |-> r.res, steps |-> <<>>]
    /\ UNCHANGED <<cls, factoryVars, dateVars, textVars, appVars>>

\* A call of parser.extract_metadata() on a TXTParser.
TxtExtractMetadata ==
    /\ cls = "TXTParser"
    /\ out' = [op |-> "extract_metadata", arg |-> NoBytes,
               res |-> txt_extract_metadata(self), steps |-> <<>>]
    /\ UNCHANGED <<cls, self, factoryVars, dateVars, textVars, appVars>>

NextTXT == TxtParse \/ TxtValidate \/ TxtExtractMetadata

(***************************************************************************)
(* The text functions of TXTParser applied to a decoded text: the decoded  *)
(* text is any string of at most MaxText characters of TextChars.          *)
(***************************************************************************)
MaxText == 6

\* A letter, the space, the two line-end characters and the tab, which
\* strip() removes and no pattern of normalize_text names.
TextChars == {"a", " ", "\n", "\r", "\t"}

Texts == UNION {[1..n -> TextChars] : n \in 0..MaxText}

\* A TXTParser whose _decoded_content is text.
DecodedParser(text) == [TXTParserInit EXCEPT !._decoded_content = Str(text, "")]

NoText == [op |-> "none"]

InitText ==
    /\ textIn \in Texts
    /\ textOut = NoText

\* A call of parser.normalize_text() on a TXTParser holding textIn.
NormalizeText ==
    /\ textOut' = [op |-> "normalize_text",
                   val |-> normalize_text(DecodedParser(textIn))]
    /\ UNCHANGED <<textIn, factoryVars, dateVars, parserVars, appVars>>

NextText == NormalizeText

(***************************************************************************)
(* _extract_structure applied to a decoded text: the text is at most       *)
(* MaxLines lines, each one of LineKinds, joined by line feeds.            *)
(***************************************************************************)
MaxLines == 3

\* A plain line, an indented one, the two underlines, a blank line, the list
\* lines with -, * and a number, an upper-case line and a line that starts
\* with the bullet U+2022.
LineKinds ==
    {<<"A", "b">>, <<" ", "T">>, <<"=", "=">>, <<"-", "-">>, <<>>,
     <<"-", " ", "x">>, <<"*", " ", "y">>, <<"1", ".", " ", "z">>,
     <<"A", "B", "C", "D">>, <<"u2022", " ", "b">>}

StructureTexts ==
    {Join(ls, <<"\n">>) : ls \in UNION {[1..n -> LineKinds] : n \in 0..MaxLines}}

InitStructureText ==
    /\ textIn \in StructureTexts
    /\ textOut = NoText

\* A call of parser._extract_structure() on a TXTParser holding textIn.
ExtractStructure ==
    /\ textOut' = [op |-> "extract_structure",
                   val |-> txt_extract_structure(DecodedParser(textIn))]
    /\ UNCHANGED <<textIn, factoryVars, dateVars, parserVars, appVars>>

NextStructure == ExtractStructure

(***************************************************************************)
(* Two TXTParser instances whose parse calls run step by step: each        *)
(* statement of parse that calls a method of the parser is one step, and   *)
(* the steps of the two calls interleave in any order.                     *)
(***************************************************************************)

Instances == {1, 2}

\* The byte strings the two instances parse.
InstInputs ==
    {TxtBytes(TxtSentinel, EncAscii, 100, ""),
     TxtBytes(TxtShort, EncAscii, 100, ""),
     TxtBytes(TxtHeaded, EncAscii, 100, ""),
     TxtBytes(TxtLatin, EncLatin1, 73, "")}

\* TXTParser(): a new instance with its own fields, no call running. start
\* is the parser as the running call found it, structure the local of
\* parse, and mixed tells that the other instance took a step during the
\* call.
NewInstance ==
    [obj |-> TXTParserInit, pc |-> "idle", arg |-> NoBytes, start |-> TXTParserInit,
     structure |-> EmptyMap, res |-> NotCalled, mixed |-> FALSE]

\* The first statements of TXTParser.parse(content): _set_content and the
\* test on the named bytes.
parse_begin(p, content) ==
    IF content.data = TxtSentinel
    THEN [p EXCEPT !.obj = set_content(p.obj, content), !.start = p.obj,
                   !.arg = content, !.structure = EmptyMap, !.mixed = FALSE,
                   !.res = Raise("TXTParsingError",
                                 {"Failed to parse TXT document",
                                  "Invalid document format"}),
                   !.pc = "done"]
    ELSE [p EXCEPT !.obj = set_content(p.obj, content), !.start = p.obj,
                   !.arg = content, !.structure = EmptyMap, !.mixed = FALSE,
                   !.res = NotCalled, !.pc = "decode"]

\* The next statement of a running TXTParser.parse on the instance p.
parse_step(p) ==
    IF p.pc = "decode"
    THEN LET d == detect_and_decode_content(p.obj) IN
         IF d.res.kind = "raise"
         THEN [p EXCEPT !.obj = d.obj, !.res = txt_parse_except(d.res), !.pc = "done"]
         ELSE IF Falsy(d.obj._decoded_content)
                 \/ Len(Strip(d.obj._decoded_content.val)) < 2
         THEN [p EXCEPT !.obj = d.obj,
                        !.res = Raise("TXTParsingError",
                                      {"Failed to parse TXT document",
                                       "Invalid or empty TXT content"}),
                        !.pc = "done"]
         ELSE [p EXCEPT !.obj = d.obj, !.pc = "structure"]
    ELSE IF p.pc = "structure"
    THEN [p EXCEPT !.structure = txt_extract_structure(p.obj), !.pc = "validate"]
    ELSE IF p.pc = "validate"
    THEN LET v == txt_validate(p.obj) IN
         IF v.res.kind = "raise"
         THEN [p EXCEPT !.obj = v.obj, !.res = txt_parse_except(v.res), !.pc = "done"]
         ELSE [p EXCEPT !.obj = v.obj, !.pc = "result"]
    ELSE [p EXCEPT !.res = Return([content |-> normalize_text(p.obj),
                                   structure |-> p.structure,
                                   metadata |-> txt_extract_metadata(p.obj).val,
                                   encoding |-> p.obj._encoding,
                                   confidence |-> p.obj._confidence]),
                   !.pc = "done"]

\* The other instances, marked when a call of theirs is running.
Marked(insts, i) ==
    [j \in DOMAIN insts |->
        IF j # i /\ insts[j].pc \notin {"idle", "done"}
        THEN [insts[j] EXCEPT !.mixed = TRUE] ELSE insts[j]]

\* A variant of the step in which _content is an attribute of the class:
\* the step reads the bytes stored last by the first instance.
StepParse_class_content(insts, i) ==
    [Marked(insts, i) EXCEPT
        ![i] = parse_step([insts[i] EXCEPT !.obj._content = insts[1].obj._content])]

\* One step of the parse call of instance i: self is that instance alone.
StepParse(insts, i) == [Marked(insts, i) EXCEPT ![i] = parse_step(insts[i])]

InitInstances == inst = [i \in Instances |-> NewInstance]

\* parser = TXTParser(): instance i is replaced by a new parser.
InstCreate ==
    \E i \in Instances :
        /\ inst[i].pc \in {"idle", "done"}
        /\ inst[i] # NewInstance
        /\ inst' = [inst EXCEPT ![i] = NewInstance]
        /\ UNCHANGED <<factoryVars, dateVars, parserVars, textVars, limiterVars, modelVars>>

\* parser.parse(content) is called on instance i.
InstBegin ==
    \E i \in Instances, content \in InstInputs :
        /\ inst[i].pc \in {"idle", "done"}
        /\ inst' = [Marked(inst, i) EXCEPT ![i] = parse_begin(inst[i], content)]
        /\ UNCHANGED <<factoryVars, dateVars, parserVars, textVars, limiterVars, modelVars>>

\* The running call of instance i takes its next step.
InstStep ==
    \E i \in Instances :
        /\ inst[i].pc \notin {"idle", "done"}
        /\ inst' = StepParse(inst, i)
        /\ UNCHANGED <<factoryVars, dateVars, parserVars, textVars, limiterVars, modelVars>>

NextInstances == InstCreate \/ InstBegin \/ InstStep

(***************************************************************************)
(* RateLimiter of app/core/security.py: a fixed window per API key.        *)
(***************************************************************************)

\* settings.RATE_LIMIT_REQUESTS and settings.RATE_LIMIT_PERIOD, the defaults
\* of app/core/config.py.
RATE_LIMIT_REQUESTS == 100
RATE_LIMIT_PERIOD == 3600

ApiKeys == {"key-A", "key-B"}

\* The readings int(time()) gives: the ends of the first and second window
\* counted from 0 and from 3599.
ClockReadings == {0, 3599, 3600, 7199}

\* The number of check_rate_limit calls followed from a starting state.
MaxCalls == 4

\* A variant of check_rate_limit that rejects only when the count is over
\* the limit.
check_rate_limit_over_limit(reqs, api_key, now) ==
    IF api_key \notin DOMAIN reqs
    THEN [reqs |-> Put(reqs, api_key, [count |-> 1, start_time |-> now]),
          res |-> Return(None)]
    ELSE IF now - reqs[api_key].start_time >= RATE_LIMIT_PERIOD
    THEN [reqs |-> Put(reqs, api_key, [count |-> 1, start_time |-> now]),
          res |-> Return(None)]
    ELSE IF reqs[api_key].count > RATE_LIMIT_REQUESTS
    THEN [reqs |-> reqs, res |-> Raise("HTTPException", {"429", "Rate limit exceeded"})]
    ELSE [reqs |-> [reqs EXCEPT ![api_key].count = @ + 1], res |-> Return(None)]

\* RateLimiter.check_rate_limit(api_key) when the clock reads now: the
\* dict after the call and how the call ends.
check_rate_limit(reqs, api_key, now) ==
    IF api_key \notin DOMAIN reqs
    THEN [reqs |-> Put(reqs, api_key, [count |-> 1, start_time |-> now]),
          res |-> Return(None)]
    ELSE IF now - reqs[api_key].start_time >= RATE_LIMIT_PERIOD
    THEN [reqs |-> Put(reqs, api_key, [count |-> 1, start_time |-> now]),
          res |-> Return(None)]
    ELSE IF reqs[api_key].count >= RATE_LIMIT_REQUESTS
    THEN [reqs |-> reqs, res |-> Raise("HTTPException", {"429", "Rate limit exceeded"})]
    ELSE [reqs |-> [reqs EXCEPT ![api_key].count = @ + 1], res |-> Return(None)]

\* The dict after n calls for each key of ks made while the clock read 0.
RequestsAfter(ks, n) == [k \in ks |-> [count |-> n[k], start_time |-> 0]]

\* The accepted calls so far, per key and reading, after those calls.
AcceptedAfter(ks, n) ==
    [k \in ApiKeys |-> [t \in ClockReadings |-> IF k \in ks /\ t = 0 THEN n[k] ELSE 0]]

\* RateLimiter() and a number of calls at reading 0: no entry, or an entry
\* after 1 call, after one call less than the limit, or at the limit.  log
\* counts the accepted calls per key and reading; calls counts the calls
\* followed from here.
InitLimiter ==
    \E ks \in SUBSET ApiKeys :
      \E n \in [ks -> {1, RATE_LIMIT_REQUESTS - 1, RATE_LIMIT_REQUESTS}] :
        /\ requests = RequestsAfter(ks, n)
        /\ clock = 0
        /\ reply = [key |-> "", res |-> NotCalled, calls |-> 0,
                    log |-> AcceptedAfter(ks, n)]

\* await rate_limiter.check_rate_limit(api_key) at a reading of the clock
\* that is not before the previous one.  The coroutine has no await inside:
\* it runs to its end without another call in between.
CheckRateLimit ==
    \E api_key \in ApiKeys, now \in ClockReadings :
        /\ now >= clock
        /\ reply.calls < MaxCalls
        /\ LET r == check_rate_limit(requests, api_key, now) IN
            /\ requests' = r.reqs
            /\ reply' = [key |-> api_key, res |-> r.res, calls |-> reply.calls + 1,
                         log |-> IF r.res.kind = "return"
                                 THEN [reply.log EXCEPT ![api_key][now] = @ + 1]
                                 ELSE reply.log]
        /\ clock' = now
        /\ UNCHANGED <<factoryVars, dateVars, parserVars, textVars, instVars, modelVars>>

NextLimiter == CheckRateLimit

(***************************************************************************)
(* The model wrappers CVParserModel and CVAnonymizerModel over the mock    *)
(* of smolmodels (app/models/mock_smolmodels.py).  A mock Model is its    *)
(* is_built flag; the saved model file <model_path>.json is absent, holds *)
(* the metadata save_model wrote, or holds something json.load rejects.   *)
(***************************************************************************)

Wrappers == {"CVParserModel", "CVAnonymizerModel"}

NoModel == [kind |-> "none"]

\* mock Model(...): is_built = False
MockModel(built) == [kind |-> "Model", is_built |-> built]

\* Model.build(...)
Model_build(m) == [m EXCEPT !.is_built = TRUE]

\* AnonymizationLevel: the values of the enum.
AnonymizationLevel == {"basic", "moderate", "thorough"}

\* The level strings a caller passes.
LevelInputs == AnonymizationLevel \cup {"BASIC", "full", ""}

\* contact_details with every key, and with the required keys alone.
ContactFull ==
    [name |-> "Ada Lovelace", email |-> "ada@example.org", phone |-> "+44 20 7946 0000",
     location |-> "London", linkedin |-> "linkedin.com/in/ada",
     other_urls |-> <<"github.com/ada", "ada.example.org">>]

ContactShort ==
    [name |-> "Ada Lovelace", email |-> "ada@example.org", phone |-> "+44 20 7946 0000"]

JobA == [title |-> "Analyst", company |-> "Babbage Ltd", location |-> "London"]
JobB == [title |-> "Engineer", company |-> "Engines Co"]
School == [degree |-> "Mathematics", institution |-> "Home tuition", location |-> "Surrey"]

\* The parsed resumes given to anonymize: without a candidate, with an
\* empty candidate, and with candidates holding some or all of the
\* sections the anonymizer looks at.
ParsedResumes ==
    {EmptyMap,
     [candidate |-> EmptyMap],
     [candidate |-> [contact_details |-> ContactShort]],
     [candidate |-> [work_experience |-> <<JobA, JobB>>, education |-> <<School>>,
                     skills |-> <<"Python">>]],
     [candidate |-> [contact_details |-> ContactFull, work_experience |-> <<JobA>>,
                     education |-> <<>>, skills |-> <<>>]],
     [candidate |-> [contact_details |-> ContactFull, work_experience |-> <<JobA, JobB>>,
                     education |-> <<School>>, skills |-> <<"Python">>]]}

\* contact_details after the two tests on the level.
RedactContact(contact, level) ==
    LET c1 == IF level \in {"basic", "moderate", "thorough"}
              THEN Put(Put(Put(contact, "name", "REDACTED NAME"),
                           "email", "REDACTED EMAIL"), "phone", "REDACTED PHONE")
              ELSE contact
    IN IF level \in {"moderate", "thorough"}
       THEN Put(Put(Put(c1, "location", "REDACTED LOCATION"),
                    "linkedin", "REDACTED URL"), "other_urls", <<"REDACTED URL">>)
       ELSE c1

\* The candidate dict after the three blocks of _mock_anonymizer_prediction.
RedactCandidate(candidate, level) ==
    LET c1 == IF "contact_details" \in DOMAIN candidate
              THEN Put(candidate, "contact_details",
                       RedactContact(candidate.contact_details, level))
              ELSE candidate
        c2 == IF "work_experience" \in DOMAIN c1 /\ level = "thorough"
              THEN Put(c1, "work_experience",
                       [i \in DOMAIN c1.work_experience |->
                           Put(Put(c1.work_experience[i], "company", "REDACTED COMPANY"),
                               "location", "REDACTED LOCATION")])
              ELSE c1
    IN IF "education" \in DOMAIN c2 /\ level \in {"moderate", "thorough"}
       THEN Put(c2, "education",
                [i \in DOMAIN c2.education |->
                    Put(Put(c2.education[i], "institution", "REDACTED INSTITUTION"),
                        "location", "REDACTED LOCATION")])
       ELSE c2

\* The resume with its candidate redacted; a resume without a candidate
\* stays as it is (the {} that get() answers is not part of it).
RedactResume(resume, level) ==
    IF "candidate" \in DOMAIN resume
    THEN Put(resume, "candidate", RedactCandidate(resume.candidate, level))
    ELSE resume

\* A variant of the anonymizer prediction that works on the dict it was
\* given instead of a copy of it.
mock_anonymizer_prediction_in_place(input_data) ==
    LET level == IF "anonymization_level" \in DOMAIN input_data
                 THEN input_data.anonymization_level ELSE "moderate"
        parsed == IF "parsed_resume" \in DOMAIN input_data
                  THEN input_data.parsed_resume ELSE EmptyMap
    IN [res |-> Return([anonymized_resume |-> RedactResume(parsed, level)]),
        arg |-> RedactResume(parsed, level)]

\* Model._mock_anonymizer_prediction(input_data): what it returns, and
\* arg, the caller's parsed_resume after the call.  The redaction works on
\* json.loads(json.dumps(parsed_resume)), an equal dict that shares no
\* object with the caller's.
mock_anonymizer_prediction(input_data) ==
    LET level == IF "anonymization_level" \in DOMAIN input_data
                 THEN input_data.anonymization_level ELSE "moderate"
        parsed == IF "parsed_resume" \in DOMAIN input_data
                  THEN input_data.parsed_resume ELSE EmptyMap
    IN [res |-> Return([anonymized_resume |-> RedactResume(parsed, level)]),
        arg |-> parsed]

\* A resume text, given by what the scans of the prediction find in it:
\* the first short line of the first five without "@" or "http" (name),
\* the first matching word of the first and of the last line with an
\* e-mail address and with a phone number, the skill keywords it contains
\* and the first long paragraph; "" and <<>> stand for nothing found.
ResumeTexts ==
    {[name |-> "", email_first |-> "", email_last |-> "", phone_first |-> "",
      phone_last |-> "", skills |-> <<>>, summary |-> ""],
     [name |-> "Ada Lovelace", email_first |-> "ada@example.org",
      email_last |-> "ada@example.org", phone_first |-> "", phone_last |-> "",
      skills |-> <<"Python", "Sql">>, summary |-> ""],
     [name |-> "Curriculum Vitae", email_first |-> "ada@example.org",
      email_last |-> "referee@example.org", phone_first |-> "+44-20-7946",
      phone_last |-> "2019-2021", skills |-> <<"Python", "Java", "React", "AWS">>,
      summary |-> "A long paragraph about the candidate"]}

\* Model._mock_parser_prediction(input_data)
mock_parser_prediction(input_data) ==
    LET text == input_data.resume_text
        skills == IF text.skills = <<>>
                  THEN <<"Python", "JavaScript", "React", "Node.js", "AWS", "Docker">>
                  ELSE text.skills
    IN [res |-> Return(
         [candidate |->
           [contact_details |->
              [name |-> IF text.name = "" THEN "Unknown" ELSE text.name,
               email |-> IF text.email_last = "" THEN "unknown@example.com"
                         ELSE text.email_last,
               phone |-> IF text.phone_last = "" THEN "+1 (555) 123-4567"
                         ELSE text.phone_last,
               location |-> "Location extracted from resume",
               linkedin |-> "linkedin profile extracted from resume",
               other_urls |-> <<"github or other urls extracted from resume">>],
            work_experience |->
              <<[title |-> "Position extracted from resume",
                 company |-> "Company extracted from resume",
                 location |-> "Location extracted from resume",
                 start_date |-> "Start date extracted from resume",
                 end_date |-> "End date extracted from resume",
                 description |-> "Description extracted from resume",
                 achievements |-> <<"Achievement extracted from resume">>,
                 skills_used |-> SubSeq(skills, 1, IF Len(skills) < 3 THEN Len(skills) ELSE 3)]>>,
            education |->
              <<[degree |-> "Degree extracted from resume",
                 institution |-> "Institution extracted from resume",
                 location |-> "Location extracted from resume",
                 start_date |-> "Start date extracted from resume",
                 end_date |-> "End date extracted from resume",
                 details |-> "Details extracted from resume"]>>,
            languages |->
              <<[language |-> "English",
                 proficiency |-> "Proficiency extracted from resume"]>>,
            skills |-> skills,
            summary |-> IF text.summary = ""
                        THEN "Experienced professional with relevant skills and background."
                        ELSE text.summary]]),
        arg |-> input_data]

\* Model.predict(input_data): res is what it returns or raises.
predict(m, input_data) ==
    IF ~m.is_built
    THEN [res |-> Raise("RuntimeError", {"Model must be built before making predictions"}),
          arg |-> input_data]
    ELSE IF "resume_text" \in DOMAIN input_data
    THEN mock_parser_prediction(input_data)
    ELSE IF "parsed_resume" \in DOMAIN input_data
    THEN [res |-> mock_anonymizer_prediction(input_data).res,
          arg |-> Put(input_data, "parsed_resume", mock_anonymizer_prediction(input_data).arg)]
    ELSE [res |-> Return([result |-> "Mock prediction result"]), arg |-> input_data]

\* save_model(model, path): the file after it, for a directory that can
\* be written or not.
sm_save_model(m, file, writable) ==
    IF ~m.is_built
    THEN [saved |-> file, res |-> Raise("RuntimeError", {"Model must be built before saving"})]
    ELSE IF ~writable
    THEN [saved |-> file, res |-> Raise("OSError", {})]
    ELSE [saved |-> "metadata", res |-> Return(None)]

\* A variant of load_model that leaves the loaded model as Model() made it.
sm_load_model_unmarked(file) ==
    IF file = "absent"
    THEN Raise("FileNotFoundError", {"Model metadata file not found"})
    ELSE IF file = "damaged"
    THEN Raise("JSONDecodeError", {})
    ELSE Return(MockModel(FALSE))

\* load_model(path)
sm_load_model(file) ==
    IF file = "absent"
    THEN Raise("FileNotFoundError", {"Model metadata file not found"})
    ELSE IF file = "damaged"
    THEN Raise("JSONDecodeError", {})
    ELSE Return(MockModel(TRUE))

\* Below, a wrapper w is its model attribute and the file at its model_path.

\* build_model(): Model(...), build(...), save_model(...)
build_model(w, writable) ==
    LET s == sm_save_model(Model_build(MockModel(FALSE)), w.saved, writable) IN
    [w |-> [model |-> Model_build(MockModel(FALSE)), saved |-> s.saved],
     res |-> s.res, steps |-> <<"build_model">>]

\* load_model()
load_model(w) ==
    IF sm_load_model(w.saved).kind = "raise"
    THEN [w |-> w, res |-> sm_load_model(w.saved), steps |-> <<"load_model">>]
    ELSE [w |-> [w EXCEPT !.model = sm_load_model(w.saved).val],
          res |-> Return(None), steps |-> <<"load_model">>]

\* initialize(force_rebuild)
initialize(w, force_rebuild, writable) ==
    IF w.saved # "absent" /\ ~force_rebuild
    THEN [load_model(w) EXCEPT !.steps = <<"initialize">> \o @]
    ELSE [build_model(w, writable) EXCEPT !.steps = <<"initialize">> \o @]

\* "if self.model is None: self.initialize()"
ensure_model(w, writable) ==
    IF w.model = NoModel
    THEN initialize(w, FALSE, writable)
    ELSE [w |-> w, res |-> Return(None), steps |-> <<>>]

\* The end of parse and of anonymize: i is the wrapper after the test on
\* its model, input_data what goes to predict.  on is the model predict
\* was called on, arg the input after the call.
predict_with(i, input_data) ==
    IF i.res.kind = "raise"
    THEN [w |-> i.w, res |-> i.res, steps |-> i.steps, on |-> NoModel, arg |-> input_data]
    ELSE [w |-> i.w, res |-> predict(i.w.model, input_data).res,
          steps |-> i.steps \o <<"predict">>, on |-> i.w.model,
          arg |-> predict(i.w.model, input_data).arg]

\* A variant of anonymize that passes the level on as it was given.
anonymize_level_as_given(w, parsed_resume, anonymization_level, writable) ==
    predict_with(ensure_model(w, writable),
                 [parsed_resume |-> parsed_resume,
                  anonymization_level |-> anonymization_level])

\* CVAnonymizerModel.anonymize(parsed_resume, anonymization_level)
anonymize(w, parsed_resume, anonymization_level, writable) ==
    predict_with(ensure_model(w, writable),
                 [parsed_resume |-> parsed_resume,
                  anonymization_level |->
                      IF anonymization_level \notin AnonymizationLevel
                      THEN "moderate" ELSE anonymization_level])

\* The result of the prediction with what parse itself found in the text
\* (the mock model is in use).
Enhance(result, text) ==
    IF "candidate" \notin DOMAIN result THEN result
    ELSE LET c == result.candidate
             d0 == c.contact_details
             name == IF text.name = "" THEN "Unknown" ELSE text.name
             d1 == IF name # "" /\ "contact_details" \in DOMAIN c
                   THEN Put(d0, "name", name) ELSE d0
             d2 == IF text.email_first # "" /\ "contact_details" \in DOMAIN c
                   THEN Put(d1, "email", text.email_first) ELSE d1
             d3 == IF text.phone_first # "" /\ "contact_details" \in DOMAIN c
                   THEN Put(d2, "phone", text.phone_first) ELSE d2
             c1 == IF "contact_details" \in DOMAIN c
                   THEN Put(c, "contact_details", d3) ELSE c
             c2 == IF text.skills # <<>> THEN Put(c1, "skills", text.skills) ELSE c1
         IN Put(result, "candidate",
                IF text.summary # "" THEN Put(c2, "summary", text.summary) ELSE c2)

\* CVParserModel.parse(resume_text, file_type)
model_parse(w, resume_text, file_type, writable) ==
    LET p == predict_with(ensure_model(w, writable),
                          [resume_text |-> resume_text, file_type |-> file_type])
    IN IF p.res.kind = "raise" THEN p
       ELSE [p EXCEPT !.res = Return(Enhance(p.res.val, resume_text))]

\* The wrappers as constructed, each with the file a previous run left.
InitModels ==
    /\ model = [c \in Wrappers |-> NoModel]
    /\ saved \in [Wrappers -> {"absent", "metadata", "damaged"}]
    /\ answer = [op |-> "none"]

\* A call of initialize(force_rebuild) on either wrapper, as the routes
\* make it before parse and anonymize.
Initialize ==
    \E c \in Wrappers, force_rebuild \in BOOLEAN, writable \in BOOLEAN :
        LET r == initialize([model |-> model[c], saved |-> saved[c]],
                            force_rebuild, writable) IN
        /\ model' = [model EXCEPT ![c] = r.w.model]
        /\ saved' = [saved EXCEPT ![c] = r.w.saved]
        /\ answer' = [op |-> "initialize", wrapper |-> c, before |-> model[c],
                      arg |-> force_rebuild, level |-> "", res |-> r.res,
                      steps |-> r.steps, on |-> NoModel, after |-> force_rebuild]
        /\ UNCHANGED <<factoryVars, dateVars, parserVars, textVars, instVars, limiterVars>>

\* A call of CVParserModel.parse(resume_text, file_type).
ModelParse ==
    \E resume_text \in ResumeTexts, file_type \in {"pdf", "txt"}, writable \in BOOLEAN :
        LET r == model_parse([model |-> model["CVParserModel"],
                              saved |-> saved["CVParserModel"]],
                             resume_text, file_type, writable) IN
        /\ model' = [model EXCEPT !["CVParserModel"] = r.w.model]
        /\ saved' = [saved EXCEPT !["CVParserModel"] = r.w.saved]
        /\ answer' = [op |-> "parse", wrapper |-> "CVParserModel",
                      before |-> model["CVParserModel"],
                      arg |-> resume_text, level |-> file_type, res |-> r.res,
                      steps |-> r.steps, on |-> r.on, after |-> r.arg.resume_text]
        /\ UNCHANGED <<factoryVars, dateVars, parserVars, textVars, instVars, limiterVars>>

\* A call of CVAnonymizerModel.anonymize(parsed_resume, anonymization_level).
Anonymize ==
    \E parsed_resume \in ParsedResumes, level \in LevelInputs, writable \in BOOLEAN :
        LET r == anonymize([model |-> model["CVAnonymizerModel"],
                            saved |-> saved["CVAnonymizerModel"]],
                           parsed_resume, level, writable) IN
        /\ model' = [model EXCEPT !["CVAnonymizerModel"] = r.w.model]
        /\ saved' = [saved EXCEPT !["CVAnonymizerModel"] = r.w.saved]
        /\ answer' = [op |-> "anonymize", wrapper |-> "CVAnonymizerModel",
                      before |-> model["CVAnonymizerModel"],
                      arg |-> parsed_resume, level |-> level, res |-> r.res,
                      steps |-> r.steps, on |-> r.on, after |-> r.arg.parsed_resume]
        /\ UNCHANGED <<factoryVars, dateVars, parserVars, textVars, instVars, limiterVars>>

NextModels == Initialize \/ ModelParse \/ Anonymize

(***************************************************************************)
(* Specifications.                                                         *)
(***************************************************************************)
InitIdle == cls = "none" /\ self = NoBytes /\ out = NoCall

\* No text function has been applied.
InitTextIdle == textIn = <<>> /\ textOut = NoText

\* No parser instance running step by step.
InitInstIdle == inst = <<>>

\* No rate limiter.
InitLimiterIdle ==
    requests = EmptyMap /\ clock = 0 /\ reply = [key |-> "", res |-> NotCalled]

\* No model wrapper.
InitModelIdle == model = <<>> /\ saved = <<>> /\ answer = [op |-> "none"]

InitAppIdle == InitInstIdle /\ InitLimiterIdle /\ InitModelIdle

Init == InitFactory /\ InitDate /\ InitIdle /\ InitTextIdle /\ InitAppIdle

\* A PDFParser next to the factory and the date formatter at rest.
InitPdfParser == InitFactory /\ InitDate /\ InitTextIdle /\ InitAppIdle /\ InitPDF

SpecPDF == InitPdfParser /\ [][NextPDF]_vars

\* A DOCXParser.
InitDocxParser == InitFactory /\ InitDate /\ InitTextIdle /\ InitAppIdle /\ InitDOCX

SpecDOCX == InitDocxParser /\ [][NextDOCX]_vars

\* A TXTParser.
InitTxtParser == InitFactory /\ InitDate /\ InitTextIdle /\ InitAppIdle /\ InitTXT

SpecTXT == InitTxtParser /\ [][NextTXT]_vars

\* A parser of any of the three classes and the calls made on it.
InitParsers == InitFactory /\ InitDate /\ InitTextIdle /\ InitAppIdle /\ (InitPDF \/ InitDOCX \/ InitTXT)

NextParsers == NextPDF \/ NextDOCX \/ NextTXT

SpecParsers == InitParsers /\ [][NextParsers]_vars

SpecFactory == Init /\ [][NextFactory]_vars

SpecDate == Init /\ [][NextDate]_vars

\* A decoded text next to the factory, the date formatter and no parser call.
InitNormalize == InitFactory /\ InitDate /\ InitIdle /\ InitText /\ InitAppIdle

SpecText == InitNormalize /\ [][NextText]_vars

\* A decoded text whose structure is extracted.
InitStructure == InitFactory /\ InitDate /\ InitIdle /\ InitStructureText /\ InitAppIdle

SpecStructure == InitStructure /\ [][NextStructure]_vars

\* Two TXTParser instances parsing concurrently.
InitTwoParsers ==
    /\ InitFactory /\ InitDate /\ InitIdle /\ InitTextIdle
    /\ InitInstances /\ InitLimiterIdle /\ InitModelIdle

SpecInstances == InitTwoParsers /\ [][NextInstances]_vars

\* The rate limiter under calls for two API keys.
InitRateLimiter ==
    /\ InitFactory /\ InitDate /\ InitIdle /\ InitTextIdle
    /\ InitInstIdle /\ InitLimiter /\ InitModelIdle

SpecLimiter == InitRateLimiter /\ [][NextLimiter]_vars

\* The two model wrappers under calls of initialize, parse and anonymize.
InitModelWrappers ==
    /\ InitFactory /\ InitDate /\ InitIdle /\ InitTextIdle
    /\ InitInstIdle /\ InitLimiterIdle /\ InitModels

SpecModels == InitModelWrappers /\ [][NextModels]_vars

(***************************************************************************)
(* The claims about the factory.                                           *)
(***************************************************************************)

\* C1: for every token t in {pdf, docx, txt}, create_parser(t) returns an
\* instance of the parser class registered for t: PDFParser for pdf,
\* DOCXParser for docx, TXTParser for txt.
C1_FactoryCreatesRegisteredType ==
    (created.res.kind # "none" /\ created.token \in DOMAIN ImportRegistrations)
        => created.res = Return(ImportRegistrations[created.token])

\* C2: factory lookup is case-insensitive and total over failure: two calls
\* whose tokens differ only in letter case have the same outcome (the same
\* parser class, or both fail), and a token outside the supported ones makes
\* create_parser fail with the unsupported-file-type error and return nothing.
C2_CaseInsensitiveTotal ==
    /\ (/\ created.res.kind # "none"
        /\ createdPrev.res.kind # "none"
        /\ Lower(created.token) = Lower(createdPrev.token))
            => created.res = createdPrev.res
    /\ (created.res.kind # "none" /\ Lower(created.token) \notin SupportedTokens)
            => /\ created.res.kind = "raise"
               /\ created.res.err = "ValueError"
               /\ "Unsupported file type" \in created.res.msg

\* Two successful calls whose tokens are different spellings of one token.
C2_Witness ==
    /\ created.res.kind = "return"
    /\ createdPrev.res.kind = "return"
    /\ created.token # createdPrev.token
    /\ created.token # Lower(created.token)
    /\ Lower(created.token) = Lower(createdPrev.token)

\* C3: last registration wins: a create_parser(token) call returns an
\* instance of the class most recently registered for the token.
C3_LastRegistrationWins ==
    [][(/\ createdPrev' = created
        /\ registry' = registry
        /\ created'.res.kind # "none"
        /\ Lower(created'.token) \in DOMAIN registry)
            => created'.res = Return(registry[Lower(created'.token)])]_vars

(***************************************************************************)
(* The claims about the PDF date formatter.                                *)
(***************************************************************************)

\* A string of the form D:YYYYMMDDHHmmSS, any suffix after it, whose fields
\* are digits and name a date and a time that exist.
WellFormedDate(s) ==
    /\ Len(s) >= 16
    /\ s[1] = "D" /\ s[2] = ":"
    /\ \A i \in 3..16 : IsDigit(s[i])
    /\ LET n(i) == 10 * DigitVal(s[i]) + DigitVal(s[i + 1])
       IN  ValidDateTime(100 * n(3) + n(5), n(7), n(9), n(11), n(13), n(15))

\* The ISO-8601 text YYYY-MM-DDTHH:mm:SS of a well-formed date string.
IsoOfDate(s) ==
    SubSeq(s, 3, 6) \o <<"-">> \o SubSeq(s, 7, 8) \o <<"-">> \o SubSeq(s, 9, 10)
        \o <<"T">> \o SubSeq(s, 11, 12) \o <<":">> \o SubSeq(s, 13, 14)
        \o <<":">> \o SubSeq(s, 15, 16)

\* C9: _parse_pdf_date is total: for D:YYYYMMDDHHmmSS with an optional suffix
\* it returns the ISO-8601 text, and for every other input exactly the empty
\* string; it never raises and never returns any other value.
C9_DateFormatterTotal ==
    dateOut.kind # "none"
        => /\ dateOut.kind = "return"
           /\ dateOut.val = (IF WellFormedDate(dateIn) THEN IsoOfDate(dateIn)
                             ELSE <<>>)

(***************************************************************************)
(* The claims about the three parsers.                                     *)
(***************************************************************************)

\* The parsing errors each format defines.
TypedErrors ==
    [PDFParser |-> {"PDFParsingError", "PDFEncryptedError", "PDFDamagedError"},
     DOCXParser |-> {"DOCXParsingError", "DOCXCorruptedError"},
     TXTParser |-> {"TXTParsingError", "TXTEncodingError"}]

\* C4: for each of the three parsers, every parse(bytes) call either returns
\* a result in which content, structure and metadata are all present, or
\* raises one of that format's typed parsing errors; no result lacks a field
\* and no untyped exception escapes.
C4_ParseFullOrTyped ==
    out.op = "parse"
        => \/ /\ out.res.kind = "return"
              /\ {"content", "structure", "metadata"} \subseteq DOMAIN out.res.val
           \/ /\ out.res.kind = "raise"
              /\ out.res.err \in TypedErrors[cls]

\* A parse of bytes the PDF reader fails on with an error that is none of
\* the kinds the except clauses name.
C4_Witness ==
    /\ cls = "PDFParser"
    /\ out.op = "parse"
    /\ out.arg.open.err = "OSError"
    /\ out.res.kind = "raise"

\* The extraction steps of parse.
ExtractionSteps == {"extract_text", "extract_structure", "extract_metadata"}

\* C5: whenever the opened PDF document reports itself encrypted, parse
\* fails with PDFEncryptedError, and no text, structure or metadata
\* extraction is performed.
C5_EncryptedRaisesEncryptedError ==
    (cls = "PDFParser" /\ out.op = "parse" /\ out.arg.open = OpenOk /\ out.arg.encrypted)
        => /\ out.res.kind = "raise"
           /\ out.res.err = "PDFEncryptedError"
           /\ \A i \in 1..Len(out.steps) : out.steps[i] \notin ExtractionSteps

\* C6: parse never returns a result for bytes that do not start with the
\* signature %PDF-: it fails with a damaged or a validation error.
C6_NoSignatureNeverParses ==
    (cls = "PDFParser" /\ out.op = "parse" /\ ~out.arg.sig)
        => /\ out.res.kind = "raise"
           /\ out.res.err \in {"PDFDamagedError", "ValidationError"}

\* The encoding a parse works with: the detected one, or utf-8 when none
\* is detected.
DetectedEncoding(content) == IF content.enc = <<>> THEN EncUtf8 ELSE content.enc

\* C7: whenever the TXT input contains the byte 0x80 and the detected
\* encoding is of the UTF-8/ASCII family, parse fails with TXTEncodingError.
C7_HighByteIsEncodingError ==
    (/\ cls = "TXTParser"
     /\ out.op = "parse"
     /\ \E i \in 1..Len(out.arg.data) : out.arg.data[i] = "x80"
     /\ Lower(DetectedEncoding(out.arg)) \in {EncUtf8, EncUtf8Short, EncAscii})
        => /\ out.res.kind = "raise"
           /\ out.res.err = "TXTEncodingError"

NothingLoaded ==
    \/ cls = "PDFParser" /\ self._pdf_reader.kind = "none"
    \/ cls = "DOCXParser" /\ self._doc.kind = "none"

\* Reading the metadata of the loaded document fails.
MetadataFailure ==
    \/ /\ cls = "PDFParser"
       /\ \/ self._pdf_reader.info.kind = "raise"
          \/ self._pdf_reader.info.kind = "dict" /\ ~self._pdf_reader.pagesOk
    \/ /\ cls = "DOCXParser"
       /\ (self._doc.props.kind = "raise" \/ ~self._doc.bodyOk)

DateParses(info, key) ==
    /\ HasTruthy(info, key)
    /\ parse_pdf_date(info[key]) \notin {None, <<>>}

\* C10: every PDF metadata extraction that meets no internal failure returns
\* a map with page_count equal to the number of pages of the loaded document,
\* with or without a document-info dictionary; creation_date and
\* modification_date are present exactly when the date string parses.
C10_PageCountAlways ==
    (/\ cls = "PDFParser"
     /\ out.op = "extract_metadata"
     /\ ~NothingLoaded
     /\ self._pdf_reader.info.kind # "raise"
     /\ self._pdf_reader.pagesOk)
        => /\ out.res.kind = "return"
           /\ "page_count" \in DOMAIN out.res.val
           /\ out.res.val["page_count"] = Len(self._pdf_reader.pages)
           /\ self._pdf_reader.info.kind = "dict"
                => /\ "creation_date" \in DOMAIN out.res.val
                        <=> DateParses(self._pdf_reader.info.d, "/CreationDate")
                   /\ "modification_date" \in DOMAIN out.res.val
                        <=> DateParses(self._pdf_reader.info.d, "/ModDate")

\* s has no leading and no trailing whitespace character.
Trimmed(s) == s = <<>> \/ (~IsSpace(s[1]) /\ ~IsSpace(s[Len(s)]))

\* C11: for every parser, the content of every result a successful parse
\* returns is trimmed: it has no leading and no trailing whitespace.
C11_ContentTrimmed ==
    (out.op = "parse" /\ out.res.kind = "return") => Trimmed(out.res.val.content)

(***************************************************************************)
(* The claims about the text functions of TXTParser.                       *)
(***************************************************************************)

\* C12: TXT normalization is idempotent: normalizing the output of
\* normalize_text again yields the same string.
C12_NormalizeIdempotent ==
    textOut.op = "normalize_text"
        => normalize_text(DecodedParser(textOut.val)) = textOut.val

\* A text with carriage returns that normalize_text shortens: its three line
\* ends are collapsed to two.
C12_Witness ==
    /\ textOut.op = "normalize_text"
    /\ textIn = <<"a", "\r", "\r", "\r", "a">>
    /\ textOut.val = <<"a", "\n", "\n", "a">>

\* s has a run of n or more consecutive characters c.
HasRun(s, c, n) ==
    \E i \in 1..(Len(s) - n + 1) : \A j \in i..(i + n - 1) : s[j] = c

\* text with every \r\n pair and every lone \r written as one \n.
WithLineFeeds(text) ==
    LET pairs == {i \in 1..Len(text) :
                    text[i] = "\n" /\ i > 1 /\ text[i - 1] = "\r"}
        kept == SelectSeq([i \in 1..Len(text) |-> i], LAMBDA i : i \notin pairs)
    IN  [k \in 1..Len(kept) |-> IF text[kept[k]] = "\r" THEN "\n" ELSE text[kept[k]]]

\* C13: the output of normalize_text contains no carriage return, no run of
\* three or more newlines, no run of two or more spaces and no leading or
\* trailing whitespace; it is the output for the text in which every \r\n
\* pair and every lone \r is a single \n.
C13_NormalizedShape ==
    textOut.op = "normalize_text"
        => /\ \A i \in 1..Len(textOut.val) : textOut.val[i] # "\r"
           /\ ~HasRun(textOut.val, "\n", 3)
           /\ ~HasRun(textOut.val, " ", 2)
           /\ Trimmed(textOut.val)
           /\ textOut.val = normalize_text(DecodedParser(WithLineFeeds(textIn)))

\* A text with a \r\n pair, a lone \r and a run of spaces inside, and
\* whitespace at both ends.
C13_Witness ==
    /\ textOut.op = "normalize_text"
    /\ textIn \in {<<" ", "a", "\r", "\n", "a">>, <<"a", " ", " ", "\r", "a">>,
                   <<"\t", "a", "\r", "a", "\n">>}
    /\ textOut.val \in {<<"a", "\n", "a">>, <<"a", " ", "\n", "a">>}

(***************************************************************************)
(* The claims about the DOCX parser.                                       *)
(***************************************************************************)

\* s has a character that is not whitespace.
NonBlank(s) == \E i \in 1..Len(s) : ~IsSpace(s[i])

\* The line of a table row: its non-blank cells, trimmed, joined by " | ".
RowLine(row) ==
    LET idx == SelectSeq([i \in 1..Len(row) |-> i], LAMBDA i : NonBlank(row[i]))
    IN  Join([k \in 1..Len(idx) |-> Strip(row[idx[k]])], <<" ", "|", " ">>)

\* The lines of a document: the non-blank paragraphs in document order, then
\* the rows with a non-blank cell, table by table.
DocxLines(doc) ==
    LET ps == SelectSeq(doc.paragraphs, LAMBDA para : NonBlank(para.text))
        rows == SelectSeq(Flatten(doc.tables),
                          LAMBDA row : \E i \in 1..Len(row) : NonBlank(row[i]))
    IN  [i \in 1..Len(ps) |-> ps[i].text] \o [i \in 1..Len(rows) |-> RowLine(rows[i])]

\* C14: the content of a DOCX result is the newline-join of the text of every
\* non-blank paragraph, in document order, followed by one line per table row
\* that has a non-blank cell: the row's non-blank trimmed cells joined by
\* " | "; blank cells and all-blank rows contribute nothing.
C14_DocxContentLayout ==
    (cls = "DOCXParser" /\ out.op = "parse" /\ out.res.kind = "return")
        => out.res.val.content = Join(DocxLines(out.arg), <<"\n">>)

\* A document with a paragraph, a table with an all-blank row and a row with
\* blank cells, and a table of two full rows.
C14_Witness ==
    /\ cls = "DOCXParser"
    /\ out.op = "parse"
    /\ out.res.kind = "return"
    /\ out.arg.tables = <<TableBlanks, TableHeaderData>>
    /\ out.res.val.content =
         <<"P", "a", "\n", "c", " ", "|", " ", "d", "\n",
           "H", "1", " ", "|", " ", "H", "2", "\n", "D", "1", " ", "|", " ", "D", "2">>

\* C15: whenever opening the bytes as a DOCX package fails because the
\* package is not found or the bytes are not a zip archive, whichever
\* exception class the open step raises, parse fails with DOCXCorruptedError
\* (message 'Failed to read DOCX' or 'Invalid DOCX format'), never with
\* DOCXParsingError and never with a result.
C15_NotAPackageIsCorrupted ==
    (/\ cls = "DOCXParser"
     /\ out.op = "parse"
     /\ \/ out.arg.open.err = "PackageNotFoundError"
        \/ "not a zip file" \in out.arg.open.msg)
        => /\ out.res.kind = "raise"
           /\ out.res.err = "DOCXCorruptedError"
           /\ out.res.msg \cap {"Failed to read DOCX", "Invalid DOCX format"} # {}

(***************************************************************************)
(* The claims about validate().                                            *)
(***************************************************************************)

\* C16: validate() on a freshly constructed PDFParser or DOCXParser, before
\* any content has been set, raises the format's generic parsing error with
\* the message "No content to validate" and leaves the parser as constructed.
C16_ValidateFreshParser ==
    (/\ cls \in {"PDFParser", "DOCXParser"}
     /\ out.op = "validate"
     /\ self._content.kind = "none")
        => /\ out.res.kind = "raise"
           /\ out.res.err = (IF cls = "PDFParser" THEN "PDFParsingError"
                             ELSE "DOCXParsingError")
           /\ "No content to validate" \in out.res.msg
           /\ self = (IF cls = "PDFParser" THEN PDFParserInit ELSE DOCXParserInit)

\* Bytes have been stored in the parser, and not the empty byte string.
ContentSet ==
    /\ self._content.kind # "none"
    /\ IF cls = "TXTParser" THEN self._content.data # <<>> ELSE ~self._content.empty

\* C17: for every parser whose content has been set, validate() returns True
\* or raises an error of kind ValidationError; no parsing error, encoding
\* error or untyped exception escapes it, also when the TXT validate() has
\* to decode the content and the decoding rejects it.
C17_ValidateTrueOrValidationError ==
    (out.op = "validate" /\ ContentSet)
        => \/ out.res = Return(TRUE)
           \/ out.res.kind = "raise" /\ out.res.err = "ValidationError"

(***************************************************************************)
(* The claims about the structure of a TXT document.                       *)
(***************************************************************************)

\* The lines of text: the pieces between its line feeds; a last piece that is
\* empty is no line.
LinesOf(text) ==
    LET feeds == SelectSeq([i \in 1..Len(text) |-> i], LAMBDA i : text[i] = "\n")
        from(k) == IF k = 1 THEN 1 ELSE feeds[k - 1] + 1
        to(k) == IF k > Len(feeds) THEN Len(text) ELSE feeds[k] - 1
        n == IF from(Len(feeds) + 1) > Len(text) THEN Len(feeds) ELSE Len(feeds) + 1
    IN  [k \in 1..n |-> SubSeq(text, from(k), to(k))]

\* s is not empty and made of the character c only.
OnlyChar(s, c) == s # <<>> /\ \A i \in 1..Len(s) : s[i] = c

\* The heading entries of the extracted structure for line number i.
HeadingsAt(i) ==
    {k \in 1..Len(textOut.val["headers"]) : textOut.val["headers"][k].line = i}

\* C18: for every non-blank line L that is immediately followed by a line
\* made only of = characters the structure has exactly one heading entry for
\* L, with level 1 and the text of L stripped; when the following line is made
\* only of - characters the entry has level 2.
C18_UnderlinedHeadings ==
    textOut.op = "extract_structure"
        => LET lines == LinesOf(textIn) IN
           \A i \in 1..(Len(lines) - 1) :
              (/\ NonBlank(lines[i])
               /\ (OnlyChar(lines[i + 1], "=") \/ OnlyChar(lines[i + 1], "-")))
                 => /\ Cardinality(HeadingsAt(i)) = 1
                    /\ \A k \in HeadingsAt(i) :
                         /\ textOut.val["headers"][k].text = Strip(lines[i])
                         /\ textOut.val["headers"][k].level =
                              (IF OnlyChar(lines[i + 1], "=") THEN 1 ELSE 2)

\* An indented line underlined with -, after a line underlined with =.
C18_Witness ==
    /\ textOut.op = "extract_structure"
    /\ LinesOf(textIn) = <<<<"=", "=">>, <<" ", "T">>, <<"-", "-">>>>
    /\ textOut.val["headers"] =
         <<[level |-> 2, text |-> <<"T">>, line |-> 2]>>

\* The length of a list marker at the start of s: the bullet U+2022, * or -,
\* or a number followed by a full stop; 0 when s starts with none.
BulletOrNumber(s) ==
    IF s = <<>> THEN 0
    ELSE IF s[1] \in {"u2022", "*", "-"} THEN 1
    ELSE LET d == Cardinality({i \in 1..Len(s) : \A j \in 1..i : IsDigit(s[j])})
         IN  IF d > 0 /\ Len(s) > d /\ s[d + 1] = "." THEN d + 1 ELSE 0

\* What follows the marker of line: whitespace and a text.
AfterMarker(line) ==
    LET t == LStrip(line) IN SubSeq(t, BulletOrNumber(t) + 1, Len(t))

\* line starts, after whitespace, with a list marker, whitespace and a text.
IsListLine(line) ==
    /\ BulletOrNumber(LStrip(line)) > 0
    /\ AfterMarker(line) # <<>>
    /\ IsSpace(AfterMarker(line)[1])
    /\ NonBlank(AfterMarker(line))

\* The places <<list, item>> of the extracted structure that hold an item of
\* line number i.
ItemsAt(i) ==
    {p \in UNION {{<<l, k>> : k \in 1..Len(textOut.val["lists"][l])} :
                    l \in 1..Len(textOut.val["lists"])} :
        textOut.val["lists"][p[1]][p[2]].line = i}

\* C19: every line that is no heading and starts with a bullet (U+2022, *,
\* -) or a number and a full stop, followed by whitespace and text, is
\* exactly one item of exactly one list, with its type, text and line number;
\* items with no blank line between them are in the same list, and a blank
\* line closes the open list.
C19_ListLines ==
    textOut.op = "extract_structure"
        => LET lines == LinesOf(textIn)
               listed == {i \in 1..Len(lines) :
                            IsListLine(lines[i]) /\ HeadingsAt(i) = {}}
           IN  /\ \A i \in listed :
                    /\ Cardinality(ItemsAt(i)) = 1
                    /\ \A p \in ItemsAt(i) :
                         LET item == textOut.val["lists"][p[1]][p[2]] IN
                         /\ item.text = LStrip(AfterMarker(lines[i]))
                         /\ item.type = (IF IsDigit(LStrip(lines[i])[1]) THEN "numbered"
                                         ELSE "bullet")
               /\ \A i, j \in listed :
                    i < j => \A p \in ItemsAt(i), q \in ItemsAt(j) :
                               (p[1] = q[1]) <=> (\A k \in (i + 1)..(j - 1) : NonBlank(lines[k]))

\* The outcome validate() has on the parser as the latest call left it.
ValidateNow ==
    IF cls = "PDFParser" THEN pdf_validate(self)
    ELSE IF cls = "DOCXParser" THEN docx_validate(self)
    ELSE txt_validate(self).res

\* parse returns a result only for content on which validate() succeeds.
ResultOnlyForValidContent ==
    (out.op = "parse" /\ out.res.kind = "return") => ValidateNow = Return(TRUE)

\* The extraction of the structure and of the metadata start after a
\* validation step of the same parse.
ExtractionAfterValidation ==
    out.op = "parse"
        => \A i \in 1..Len(out.steps) :
              out.steps[i] \in {"extract_structure", "extract_metadata"}
                  => \E j \in 1..(i - 1) : out.steps[j] = "validate"

\* C20: validation gates extraction: in every parse of every parser the
\* structure and the metadata extraction start only after the content has
\* passed validation, and parse returns a result only for content on which
\* validate() succeeds.
C20_ValidationGatesExtraction ==
    ExtractionAfterValidation /\ ResultOnlyForValidContent

(***************************************************************************)
(* The claims about one parser instance used for several documents.        *)
(***************************************************************************)

\* What a new TXTParser makes of the stored bytes.
DecodedAfresh == detect_and_decode_content(set_content(TXTParserInit, self._content)).obj

\* C21: no state is mixed between parse calls on one instance: the cached
\* decoded document (PDF reader, DOCX document, TXT decoded text and
\* encoding) is derived from the bytes of the most recent parse call, or
\* cleared; validate() and extract_metadata() never answer from an earlier
\* document while the stored bytes are those of a later one.
C21_NoMixedState ==
    /\ cls = "PDFParser"
         => \/ self._pdf_reader.kind = "none"
            \/ /\ self._content.kind # "none"
               /\ PdfReader(self._content) = Return(self._pdf_reader)
    /\ cls = "DOCXParser"
         => \/ self._doc.kind = "none"
            \/ /\ self._content.kind # "none"
               /\ Document(self._content) = Return(self._doc)
    /\ cls = "TXTParser"
         => \/ self._decoded_content.kind = "none"
            \/ /\ self._content.kind # "none"
               /\ DecodedAfresh._decoded_content = self._decoded_content
               /\ DecodedAfresh._encoding = self._encoding

(***************************************************************************)
(* The claims about failures inside the extraction steps.                  *)
(***************************************************************************)

\* The document of the latest parse was opened and its text extracted, and
\* reading its structure meets a failure: a page without a readable media
\* box or a failing outline (PDF), a section without a page size or a heading
\* style without a number (DOCX).
StructureFailure ==
    /\ out.op = "parse"
    /\ cls \in {"PDFParser", "DOCXParser"}
    /\ out.arg.open.err = ""
    /\ \/ /\ cls = "PDFParser"
          /\ ~out.arg.encrypted
          /\ out.arg.pagesOk
          /\ \/ \E i \in 1..Len(out.arg.pages) : ~out.arg.pages[i].box
             \/ out.arg.outline = "raise"
       \/ /\ cls = "DOCXParser"
          /\ out.arg.bodyOk
          /\ \/ \E i \in 1..Len(out.arg.sections) : out.arg.sections[i].page_width < 0
             \/ \E i \in 1..Len(out.arg.paragraphs) :
                   /\ StartsWith(out.arg.paragraphs[i].style, HeadingWord)
                   /\ HeadingLevel(out.arg.paragraphs[i].style).kind = "raise"

IsControlByte(b) == ByteVal(b) \in (0..31) \ {9, 10, 13, 27}

\* C23: for every TXT input of at least 10 bytes in which strictly more than
\* 5% of the bytes are control characters (value 0..31, not 9, 10, 13 or 27),
\* parse rejects the input as binary content, whatever encoding is detected.
C23_BinaryRejected ==
    (/\ cls = "TXTParser"
     /\ out.op = "parse"
     /\ Len(out.arg.data) >= 10
     /\ 100 * Cardinality({i \in 1..Len(out.arg.data) : IsControlByte(out.arg.data[i])})
          > 5 * Len(out.arg.data))
        => /\ out.res.kind = "raise"
           /\ "contains too many binary characters" \in out.res.msg

\* Decoding the bytes with the detected encoding fails, so that the UTF-8
\* fallback with replacement is needed.
NeedsFallback(content) ==
    LET d == Decode(content.data, DetectedEncoding(content))
    IN  d.kind = "raise" /\ d.err = "UnicodeDecodeError"

\* C24: no TXT parse succeeds on untrustworthy short input: every result
\* comes from content of at least 10 bytes; when the reported confidence is
\* below 0.7 the content has at least 50 bytes; and content under 50 bytes
\* that needs the UTF-8 replacement fallback is rejected.
C24_NoShortUntrustedResult ==
    (cls = "TXTParser" /\ out.op = "parse")
        => /\ out.res.kind = "return"
                => /\ Len(out.arg.data) >= 10
                   /\ out.res.val.confidence < 70 => Len(out.arg.data) >= 50
           /\ (Len(out.arg.data) < 50 /\ NeedsFallback(out.arg))
                => out.res.kind = "raise"

\* A parse of 19 bytes, detected as cp1252 with confidence 0.73, that has a
\* byte cp1252 does not define: the fallback is needed and the parse fails.
C24_Witness ==
    /\ cls = "TXTParser"
    /\ out.op = "parse"
    /\ out.arg = TxtBytes(TxtUndefined, EncWindows1252, 73, "")
    /\ NeedsFallback(out.arg)
    /\ out.res.kind = "raise"
    /\ self._decoded_content.kind = "str"

\* The stripped non-blank lines of lines numbered from..to that are no
\* heading lines, in order.
BodyLines(lines, from, to) ==
    LET idx == SelectSeq([i \in 1..Len(lines) |-> i],
                         LAMBDA i : /\ i >= from /\ i <= to
                                    /\ NonBlank(lines[i])
                                    /\ HeadingsAt(i) = {})
    IN  [k \in 1..Len(idx) |-> Strip(lines[idx[k]])]

\* C25: sections follow headings: structure.sections and structure.headers
\* correspond one-to-one in order (title, level, line); the content of a
\* section is exactly the non-blank lines that are no heading lines between
\* its heading and the next heading, each once, so that a line after the
\* first heading is in the section opened last before it and in no other,
\* and a line before the first heading is in none.
C25_SectionsFollowHeadings ==
    (textOut.op = "extract_structure" /\ textOut.val # EmptyMap)
        => LET lines == LinesOf(textIn)
               headers == textOut.val["headers"]
               sections == textOut.val["sections"]
           IN  /\ Len(sections) = Len(headers)
               /\ \A k \in 1..Len(sections) :
                    /\ sections[k].title = headers[k].text
                    /\ sections[k].level = headers[k].level
                    /\ sections[k].start_line = headers[k].line
                    /\ sections[k].content =
                         BodyLines(lines, headers[k].line + 1,
                                   IF k < Len(headers) THEN headers[k + 1].line - 1
                                   ELSE Len(lines))

\* A line before the first heading, an upper-case heading, and a list line
\* after it.
C25_Witness ==
    /\ textOut.op = "extract_structure"
    /\ LinesOf(textIn) = <<<<" ", "T">>, <<"A", "B", "C", "D">>, <<"-", " ", "x">>>>
    /\ textOut.val["sections"] =
         <<[title |-> <<"A", "B", "C", "D">>, level |-> 3, start_line |-> 2,
            content |-> <<<<"-", " ", "x">>>>]>>

(***************************************************************************)
(* The claims about the pages of a PDF document.                           *)
(***************************************************************************)

RECURSIVE PageTexts(_, _)
\* The texts of pages i, i+1, ... whose extraction succeeds with a text that
\* is not empty, each followed by a blank line.
PageTexts(pages, i) ==
    IF i > Len(pages) THEN <<>>
    ELSE (IF pages[i].fail \/ pages[i].text = <<>> THEN <<>>
          ELSE pages[i].text \o <<"\n", "\n">>) \o PageTexts(pages, i + 1)

\* C26: a page whose text extraction fails is skipped: for every opened,
\* unencrypted document whose pages can be listed, parse returns, and the
\* content is the texts of the pages extracted with a non-empty text, in page
\* order, joined by a blank line; no page failure removes or reorders the
\* text of the other pages.
C26_PageFailureSkipped ==
    (/\ cls = "PDFParser"
     /\ out.op = "parse"
     /\ out.arg.open.err = ""
     /\ ~out.arg.encrypted
     /\ out.arg.pagesOk)
        => /\ out.res.kind = "return"
           /\ LET all == PageTexts(out.arg.pages, 1) IN
              out.res.val.content =
                 (IF all = <<>> THEN <<>> ELSE SubSeq(all, 1, Len(all) - 2))

\* A document whose first page fails and whose second page has text.
C26_Witness ==
    /\ cls = "PDFParser"
    /\ out.op = "parse"
    /\ Len(out.arg.pages) = 2
    /\ out.arg.pages[1].fail
    /\ out.arg.pages[2].text = TextB
    /\ out.res.kind = "return"
    /\ out.res.val.content = TextB


RECURSIVE SumOver(_, _)
SumOver(f, S) ==
    IF S = {} THEN 0
    ELSE LET t == CHOOSE x \in S : TRUE IN f[t] + SumOver(f, S \ {t})

\* The number of calls accepted for key k at a reading within the current
\* window [start_time, start_time + RATE_LIMIT_PERIOD) of its entry.
AcceptedInWindow(k) ==
    SumOver(reply.log[k],
            {t \in ClockReadings :
                /\ t >= requests[k].start_time
                /\ t < requests[k].start_time + RATE_LIMIT_PERIOD})

\* Every stored count is between 1 and the limit, and no window has more
\* accepted calls than the limit.
CountsWithinLimit ==
    \A k \in DOMAIN requests :
        /\ 1 <= requests[k].count
        /\ requests[k].count <= RATE_LIMIT_REQUESTS
        /\ AcceptedInWindow(k) <= RATE_LIMIT_REQUESTS

\* A rejected call leaves the dict as it was, and any call leaves the
\* entries of the other keys as they were.
CallTouchesOwnEntryOnly ==
    /\ reply'.res.kind = "raise" => requests' = requests
    /\ \A k \in ApiKeys \ {reply'.key} :
        /\ (k \in DOMAIN requests') = (k \in DOMAIN requests)
        /\ k \in DOMAIN requests => requests'[k] = requests[k]

\* C28: with non-decreasing clock readings every stored count stays within
\* 1..RATE_LIMIT_REQUESTS, the calls accepted for a key within its current
\* window never exceed RATE_LIMIT_REQUESTS, a call rejected with 429 changes
\* no counter, and a call for one key never changes the entry of another.
C28_AdmissionBound == []CountsWithinLimit /\ [][CallTouchesOwnEntryOnly]_vars

\* A call for one key rejected with 429 at the limit, inside its window
\* and after the clock moved, while the other key has an entry of its own.
C28_Witness ==
    /\ reply.res.kind = "raise"
    /\ reply.key = "key-A"
    /\ requests["key-A"].count = RATE_LIMIT_REQUESTS
    /\ clock = 3599
    /\ "key-B" \in DOMAIN requests
    /\ requests["key-B"].count = 2
    /\ reply.calls = 3


\* The method names in the steps of the latest wrapper call.
StepsRun == {answer.steps[i] : i \in DOMAIN answer.steps}

\* A model attribute that predict can be called on.
Built(m) == m.kind = "Model" /\ m.is_built

\* C29: through CVParserModel.parse and CVAnonymizerModel.anonymize predict
\* is never invoked on an unbuilt model: a call that finds the model unset
\* runs initialize() first, after an initialize() that returned the model
\* is built, whether loaded or built and saved, and no call ends with the
\* mock's "must be built before making predictions" error.
C29_PredictOnBuiltModel ==
    /\ \A c \in DOMAIN model : model[c] = NoModel \/ Built(model[c])
    /\ answer.op = "initialize" /\ answer.res.kind = "return"
        => Built(model[answer.wrapper])
    /\ answer.op \in {"parse", "anonymize"}
        => /\ answer.before = NoModel
                => answer.steps # <<>> /\ Head(answer.steps) = "initialize"
           /\ "predict" \in StepsRun
                => Built(answer.on) /\ Built(model[answer.wrapper])
           /\ answer.res.kind = "raise"
                => /\ "predict" \notin StepsRun
                   /\ "Model must be built before making predictions" \notin answer.res.msg

\* A parse that found the model unset, loaded it from the saved file and
\* got its prediction.
C29_Witness ==
    /\ answer.op = "parse"
    /\ answer.before = NoModel
    /\ answer.steps = <<"initialize", "load_model", "predict">>
    /\ answer.res.kind = "return"

\* An anonymize that found the model unset, built and saved it and got its
\* prediction.
ModelBuiltOnDemand ==
    /\ answer.op = "anonymize"
    /\ answer.before = NoModel
    /\ answer.steps = <<"initialize", "build_model", "predict">>
    /\ answer.res.kind = "return"
    /\ saved["CVAnonymizerModel"] = "metadata"


\* What anonymize returns for a resume at a level on a wrapper whose model
\* is built.
Anonymized(resume, level) ==
    anonymize([model |-> MockModel(TRUE), saved |-> "metadata"],
              resume, level, TRUE).res.val.anonymized_resume

\* The dicts of a section of a resume: contact_details as a list of one.
Entries(resume, section) ==
    IF "candidate" \notin DOMAIN resume \/ section \notin DOMAIN resume.candidate
    THEN <<>>
    ELSE IF section = "contact_details"
    THEN <<resume.candidate.contact_details>>
    ELSE resume.candidate[section]

\* The fields that the anonymized resume holds with another value than the
\* resume, or that the resume did not hold.
RedactedFields(resume, level) ==
    UNION {UNION {{<<section, i, k>> :
                     k \in {x \in DOMAIN Entries(Anonymized(resume, level), section)[i] :
                              \/ x \notin DOMAIN Entries(resume, section)[i]
                              \/ Entries(resume, section)[i][x]
                                    # Entries(Anonymized(resume, level), section)[i][x]}} :
                   i \in DOMAIN Entries(Anonymized(resume, level), section)} :
           section \in {"contact_details", "work_experience", "education"}}

\* C30: anonymize with a level outside basic, moderate, thorough gives the
\* output of level moderate; the fields redacted at basic are among those
\* redacted at moderate, which are among those redacted at thorough; name,
\* email and phone are redacted whenever contact_details exists; and the
\* parsed_resume given is not changed by the call.
C30_LevelFallbackMonotone ==
    answer.op = "anonymize" /\ answer.res.kind = "return"
        => /\ answer.level \notin {"basic", "moderate", "thorough"}
                => answer.res.val.anonymized_resume = Anonymized(answer.arg, "moderate")
           /\ RedactedFields(answer.arg, "basic") \subseteq RedactedFields(answer.arg, "moderate")
           /\ RedactedFields(answer.arg, "moderate") \subseteq RedactedFields(answer.arg, "thorough")
           /\ Entries(answer.arg, "contact_details") # <<>>
                => /\ answer.res.val.anonymized_resume.candidate.contact_details.name
                        = "REDACTED NAME"
                   /\ answer.res.val.anonymized_resume.candidate.contact_details.email
                        = "REDACTED EMAIL"
                   /\ answer.res.val.anonymized_resume.candidate.contact_details.phone
                        = "REDACTED PHONE"
           /\ answer.after = answer.arg

\* An anonymize call with the level "BASIC" on a resume with every section:
\* the contact location and the institution are redacted as at moderate,
\* the company is not, and more is redacted at thorough than at basic.
C30_Witness ==
    /\ answer.op = "anonymize" /\ answer.res.kind = "return"
    /\ answer.level = "BASIC"
    /\ Len(Entries(answer.arg, "work_experience")) = 2
    /\ Entries(answer.arg, "contact_details") # <<>>
    /\ answer.res.val.anonymized_resume.candidate.contact_details.location
          = "REDACTED LOCATION"
    /\ answer.res.val.anonymized_resume.candidate.education[1].institution
          = "REDACTED INSTITUTION"
    /\ answer.res.val.anonymized_resume.candidate.work_experience[1].company
          = "Babbage Ltd"
    /\ RedactedFields(answer.arg, "basic") # RedactedFields(answer.arg, "thorough")
    /\ RedactedFields(answer.arg, "basic") # {}

=============================================================================
